---------------------------- MODULE Spec2Model ----------------------------
(***************************************************************************)
(* A model of the reasoning-chain pipeline: extract_reasoning.py (class     *)
(* DirectReasoningExtractor), the index builders, the generator, the       *)
(* embedder and the web demo:                                              *)
(*                                                                         *)
(*   - parse_contents_file: the hand-written scanner that recovers JSON    *)
(*     objects from the concatenated "contents" stream (SpecParse);        *)
(*   - batch_process with _load_processed_papers, _save_single_result and  *)
(*     extract_reasoning_chain: the resumable batch loop over the output   *)
(*     file, with crashes between and inside appends (Spec), and with a    *)
(*     max_papers limit on a longer corpus (SpecLimited);                  *)
(*   - extract_key_content: the selection of the excerpt sent to the LLM   *)
(*     (SpecSelect);                                                       *)
(*   - the record extract_reasoning_chain returns and build_database of    *)
(*     build_db.py and build_hybrid_reasoning_db.py (SpecStore);           *)
(*   - create_collection and the batching loop of build_database           *)
(*     (SpecBuild, SpecRebuild; SpecBuildIds with the ids of the records); *)
(*   - generate_reasoning_chain of reasoning_chain_generator.py with its   *)
(*     retrieval, LLM call, parsing and references (SpecGenerate);         *)
(*   - _match_paper_data (SpecMatch);                                      *)
(*   - embed_batch and embed_single of embedding_utils.py, together with   *)
(*     the other loops that retry (SpecTerminates);                        *)
(*   - predict, regenerate and reset_state of web_demo.py (SpecDemo).      *)
(***************************************************************************)
EXTENDS Integers, Sequences, FiniteSets, TLC

VARIABLES
    \* ---- parse_contents_file ----
    items,          \* ghost: the pieces the stream was concatenated from
    content,        \* the text read from contents.jsonl, a sequence of characters
    max_papers,     \* the limit, of the parser and of batch_process; 0 stands for None (falsy too)
    ppc,            \* position in parse_contents_file: "outer", "scan", "done"
    pos,            \* scan position of the outer loop (1-based)
    start,          \* where the current candidate begins
    idx,            \* the inner loop's i (1-based)
    brace_count,
    in_string,
    escape,
    papers,         \* the records parsed so far
    paper_count,
    failed_count,
    \* ---- the output file, batch_process ----
    corpus,         \* the valid records of the contents stream, as parsed with no limit
    exists,         \* output_file.exists()
    file,           \* the output file: a sequence of lines, each a sequence of written pieces
    pc,             \* "idle", "loop", "extract", "save", "done", "returned", "fatal"
    resume,         \* the resume parameter of this run
    processed_ids,
    papers_to_process,  \* indices into corpus, in corpus order
    cursor,         \* index into papers_to_process of the record of this iteration
    attempt,        \* extract_reasoning_chain's attempt (0-based, as in the code)
    processed,
    failed,         \* indices into corpus of the records in the failure list
    runs,           \* number of runs of batch_process started so far
    \* ---- ghosts (what happened so far; no guard reads them) ----
    attempted,      \* indices passed to extract_reasoning_chain in this run, in order
    wroteFor,       \* indices whose record this run appended to the output file
    calls,          \* LLM calls made for the current record
    firstValid,     \* number of the first call for the current record that returned a complete response (0: none)
    lastExtract,    \* the last return of extract_reasoning_chain: [i, calls, firstValid, result]
    appendDone,     \* indices whose _save_single_result has completed, in any run
    appendStarted,  \* indices for which a write to the output file has begun, in any run
    doneAtStart,    \* appendDone when this run started
    startedAtStart, \* appendStarted when this run started
    recAtStart,     \* indices with a record (a line that parses) in the file when this run started
    lastEnd,        \* how the last run that ended did: "none", "crash", "done", "returned", "fatal"
    prevEnd,        \* lastEnd when this run started
    lastSaved,      \* paper_id of the last completed _save_single_result, "-" once the file changed otherwise
    lastOp,         \* file specification: the last operation, "none", "save", "crash", "load"
    \* ---- extract_key_content ----
    sections_list,  \* paper_content['sections']: a sequence of [section_title, section_text]
    media_data,     \* the media items matched to the paper
    is_review,      \* the is_review parameter
    final_parts,    \* the blocks joined into the returned text
    kpc,            \* "idle", "input", "done"
    \* ---- extract_reasoning_chain's result, build_database ----
    reasoning,      \* the LLM response of this pass, decoded
    paper_meta,     \* [paper, metadata]: paper_content and the metadata matched to it
    result,         \* the record extract_reasoning_chain returns (NoRecord: None)
    chain,          \* the line of the reasoning-chain file, as load_reasoning_chains reads it
    variant,        \* which build_database: "build_db" or "hybrid"
    entry,          \* what build_database hands to collection.add for the record
    hit,            \* the item _retrieve_similar_chains makes of the entry when a query returns it
    spc,            \* "idle", "llm", "returned", "appended", "built", "retrieved"
    \* ---- create_collection and the loop of build_database ----
    chains_len,     \* len(reasoning_chains); record i is the i-th of the list and has id i
    chain_ids,      \* the dict of each record restricted to its paper_id key, where drawn; <<>>: ids are places
    max_builds,     \* how many times main (create_collection, build_database) is run
    builds,         \* builds started so far
    reset,          \* the reset argument of the last create_collection
    collection,     \* the entries of the collection: <<id, "old">> from before, <<id, "new">> added
    bcur,           \* records of the list the loop has taken
    embedding,      \* embed_single for the last record taken: "-" (not called), "none", "vector"
    all_ids,        \* the four pending lists
    all_embeddings,
    all_documents,
    all_metadatas,
    add_calls,      \* ghost: the arguments of the calls of collection.add of this build, in order
    build_failed,   \* failed_count of build_database
    accepted,       \* ghost: the records of this build that passed both checks, in order
    prev_build,     \* ghost: [collection, accepted, reset] when the build before this one ended
    dpc,            \* "idle", "start", "created", "loop", "done", "raised"
    \* ---- generate_reasoning_chain ----
    stored,         \* what collection.query returns for the question: the metadata of the hits, in order
    return_references,\* the return_references parameter
    retrieved,      \* the list _retrieve_similar_chains returns
    llm_calls,      \* calls of chat.completions.create made by _call_llm
    generated_chain,\* what _call_llm returned: <<>> before, else <<the text>>, a text being a sequence of pieces
    gen_result,     \* what generate_reasoning_chain returned (NoRecord before)
    raised_in,      \* ghost: the method an exception left generate_reasoning_chain from, "-" if none
    gpc,            \* "idle", "start", "retrieved", "prompted", "generated", "returned", "raised"
    \* ---- _match_paper_data ----
    paper_id,       \* the id of the paper, or null
    paper_doi,      \* the doi of the paper, or null
    metadata_dict,  \* [by_id, by_doi]: the two indexes of the metadata, each optional
    media_dict,     \* [by_id, by_doi]: the two indexes of the media items
    matched_metadata,\* the metadata returned
    matched_media,  \* the media items returned
    mpc,            \* "idle", "start", "matched"
    \* ---- embed_batch and embed_single of embedding_utils.py ----
    self_max_retries,\* self.max_retries of the embedder
    texts_len,      \* len(texts) of embed_batch
    batch_embeddings,\* the list embed_batch has built: "vector" or "none" for each text taken
    retry_count,    \* retry_count of the running embed_single
    embed_calls,    \* calls of client.embeddings.create made for the text being embedded
    epc,            \* "idle", "batch", "single", "done"
    \* ---- the web demo (predict, regenerate, reset_state of one session) ----
    chatbot,        \* the chat display list: pairs <<query, response>>
    task_history,   \* the task history of the session: pairs <<query, response>>
    w_query,        \* the query of the predict that is between its two yields
    w_op,           \* the operation started last
    w_before,       \* the two lists when that operation started
    wpc             \* "ready": no operation is running; "generating": predict has yielded the loading message

pvars == <<items, content, max_papers, ppc, pos, start, idx, brace_count, in_string,
           escape, papers, paper_count, failed_count>>
bvars == <<corpus, exists, file, pc, resume, processed_ids, papers_to_process, cursor,
           attempt, processed, failed, runs>>
gvars == <<attempted, wroteFor, calls, firstValid, lastExtract, appendDone, appendStarted,
           doneAtStart, startedAtStart, recAtStart, lastEnd, prevEnd, lastSaved, lastOp>>
svars == <<sections_list, media_data, is_review, final_parts, kpc>>
tvars == <<reasoning, paper_meta, result, chain, variant, entry, hit, spc>>
dvars == <<chains_len, chain_ids, max_builds, builds, reset, collection, bcur, embedding, all_ids, all_embeddings, all_documents, all_metadatas, add_calls, build_failed, accepted, prev_build, dpc>>
qvars == <<stored, return_references, retrieved, llm_calls, generated_chain, gen_result, raised_in, gpc>>
mvars == <<paper_id, paper_doi, metadata_dict, media_dict, matched_metadata, matched_media, mpc>>
evars == <<self_max_retries, texts_len, batch_embeddings, retry_count, embed_calls, epc>>
wvars == <<chatbot, task_history, w_query, w_op, w_before, wpc>>
nvars == <<dvars, qvars, mvars, evars, wvars>>
vars == <<pvars, bvars, gvars, svars, tvars, nvars>>

-----------------------------------------------------------------------------
(* Bounds of the model. *)

\* pieces (objects, corrupted fragments, whitespace) concatenated into one stream
MaxItems == 3
\* largest max_papers tried by the parser specification
MaxLimit == 2
\* records in the corpus handed to batch_process
MaxPapers == 2
\* runs of batch_process (the first, then restarts)
MaxRuns == 2
\* writes to the output file that a crash cuts short, over all runs
MaxPartial == 1
\* pieces written to the output file in the file specification
MaxPieces == 3
\* lines already in the output file when the file specification starts
MaxInitLines == 1
\* records of the corpus that are of another kind than "ok"
MaxOdd == 1

-----------------------------------------------------------------------------
(* Small helpers. *)

RECURSIVE Flatten(_)
Flatten(ss) == IF ss = <<>> THEN <<>> ELSE Head(ss) \o Flatten(Tail(ss))

SeqsUpTo(S, n) == UNION {[1..k -> S] : k \in 0..n}

Range(s) == {s[k] : k \in DOMAIN s}

-----------------------------------------------------------------------------
(* json.loads on a candidate span, over the characters of the model:       *)
(*   {  }  "  \  :  a  and the space.  A value is a string or an object; an *)
(* object has no member or one member (the alphabet has no comma).  Inside  *)
(* a string \" and \\ are the escapes; a backslash before any other         *)
(* character of the alphabet is an invalid escape, as in JSON.              *)
(* A decoded value is [t, s, m]: t = "str" with its characters s, or        *)
(* t = "obj" with m = <<>> or m = <<key, value>>.                           *)

Whitespace == {" "}

NoVal == [t |-> "none", s |-> <<>>, m |-> <<>>]
JFail == [ok |-> FALSE, val |-> NoVal, next |-> 0]
JStr(cs) == [t |-> "str", s |-> cs, m |-> <<>>]
JObj(ms) == [t |-> "obj", s |-> <<>>, m |-> ms]

RECURSIVE SkipSpace(_, _)
SkipSpace(s, i) ==
    IF i <= Len(s) /\ s[i] \in Whitespace THEN SkipSpace(s, i + 1) ELSE i

\* the body of a string, from the character after its opening quote
RECURSIVE ScanString(_, _, _)
ScanString(s, i, acc) ==
    IF i > Len(s) THEN JFail
    ELSE IF s[i] = "\"" THEN [ok |-> TRUE, val |-> JStr(acc), next |-> i + 1]
    ELSE IF s[i] = "\\" THEN
        IF i + 1 <= Len(s) /\ s[i + 1] \in {"\"", "\\"}
        THEN ScanString(s, i + 2, Append(acc, s[i + 1]))
        ELSE JFail
    ELSE ScanString(s, i + 1, Append(acc, s[i]))

RECURSIVE ParseValue(_, _)
ParseValue(s, i0) ==
    LET i == SkipSpace(s, i0) IN
    IF i > Len(s) THEN JFail
    ELSE IF s[i] = "\"" THEN ScanString(s, i + 1, <<>>)
    ELSE IF s[i] = "{" THEN
        LET j == SkipSpace(s, i + 1) IN
        IF j > Len(s) THEN JFail
        ELSE IF s[j] = "}" THEN [ok |-> TRUE, val |-> JObj(<<>>), next |-> j + 1]
        ELSE IF s[j] = "\"" THEN
            LET key == ScanString(s, j + 1, <<>>) IN
            IF ~key.ok THEN JFail
            ELSE
                LET k == SkipSpace(s, key.next) IN
                IF k > Len(s) \/ s[k] # ":" THEN JFail
                ELSE
                    LET v == ParseValue(s, k + 1) IN
                    IF ~v.ok THEN JFail
                    ELSE
                        LET l == SkipSpace(s, v.next) IN
                        IF l > Len(s) \/ s[l] # "}" THEN JFail
                        ELSE [ok |-> TRUE, val |-> JObj(<<key.val, v.val>>), next |-> l + 1]
        ELSE JFail
    ELSE JFail

\* json.loads(text): the whole text must be one value (trailing data is an error)
JsonLoads(text) ==
    LET r == ParseValue(text, 1) IN
    IF r.ok /\ SkipSpace(text, r.next) = Len(text) + 1 THEN r ELSE JFail

-----------------------------------------------------------------------------
(* The streams the parser is run on: valid objects, corrupted fragments and *)
(* whitespace, concatenated with no separator.                              *)

ValidObjects ==
    { <<"{", "}">>,                                                \* {}
      <<"{", "\"", "\"", ":", "\"", "}", "\"", "}">>,              \* {"":"}"}
      <<"{", "\"", "\"", ":", "\"", "\\", "\"", "\"", "}">>,       \* {"":"\""}
      <<"{", "\"", "\"", ":", "\"", "\\", "\\", "\"", "}">>,       \* {"":"\\"}
      <<"{", "\"", "{", "\"", ":", "{", "}", "}">> }               \* {"{":{}}

BalancedFragments ==
    { <<"{", "\"", "\"", "}">>,                                    \* {""}  closes, is not JSON
      <<"a", "}">> }                                               \* a}    no opening brace

UnbalancedFragments ==
    { <<"{">>,                                                     \* an unbalanced brace
      <<"{", "\"">> }                                              \* an unbalanced quote

Item(kind, text) == [kind |-> kind, text |-> text]

ItemSet ==
    {Item("object", t) : t \in ValidObjects}
        \cup {Item("fragment", t) : t \in BalancedFragments \cup UnbalancedFragments}
        \cup {Item("space", <<" ">>)}

RECURSIVE Texts(_)
Texts(its) == IF its = <<>> THEN <<>> ELSE <<Head(its).text>> \o Texts(Tail(its))

\* the records of the valid objects of a stream, in stream order
RECURSIVE SourceRecords(_)
SourceRecords(its) ==
    IF its = <<>> THEN <<>>
    ELSE (IF Head(its).kind = "object" THEN <<JsonLoads(Head(its).text).val>> ELSE <<>>)
             \o SourceRecords(Tail(its))

-----------------------------------------------------------------------------
(* parse_contents_file.  Positions are 1-based: the code's pos is pos - 1.  *)

\* the values the variables of the other parts keep while one specification runs
NoRecord == [none |-> TRUE]

SelectIdle ==
    /\ sections_list = <<>> /\ media_data = <<>> /\ final_parts = <<>> /\ kpc = "idle"

StoreIdle ==
    /\ reasoning = NoRecord /\ paper_meta = NoRecord /\ result = NoRecord
    /\ chain = NoRecord /\ variant = "build_db" /\ entry = NoRecord /\ hit = NoRecord
    /\ spc = "idle"

BuildIdle ==
    /\ chains_len = 0 /\ chain_ids = <<>> /\ max_builds = 0 /\ builds = 0 /\ reset = FALSE
    /\ collection = {} /\ bcur = 0 /\ embedding = "-" /\ all_ids = <<>>
    /\ all_embeddings = <<>> /\ all_documents = <<>> /\ all_metadatas = <<>>
    /\ add_calls = <<>> /\ build_failed = 0 /\ accepted = <<>> /\ prev_build = NoRecord
    /\ dpc = "idle"

GenerateIdle ==
    /\ stored = <<>> /\ return_references = TRUE /\ retrieved = <<>> /\ llm_calls = 0
    /\ generated_chain = <<>> /\ gen_result = NoRecord /\ raised_in = "-"
    /\ gpc = "idle"

MatchIdle ==
    /\ paper_id = NoRecord /\ paper_doi = NoRecord /\ metadata_dict = NoRecord
    /\ media_dict = NoRecord /\ matched_metadata = NoRecord /\ matched_media = NoRecord
    /\ mpc = "idle"

EmbedIdle ==
    /\ self_max_retries = 0 /\ texts_len = 0 /\ batch_embeddings = <<>>
    /\ retry_count = 0 /\ embed_calls = 0 /\ epc = "idle"

DemoIdle ==
    /\ chatbot = <<>> /\ task_history = <<>> /\ w_query = <<>> /\ w_op = "-"
    /\ w_before = <<>> /\ wpc = "idle"

RestIdle == BuildIdle /\ GenerateIdle /\ MatchIdle /\ EmbedIdle /\ DemoIdle

ParseIdle ==
    /\ items = <<>> /\ content = <<>> /\ max_papers = 0 /\ ppc = "done"
    /\ pos = 1 /\ start = 0 /\ idx = 0
    /\ brace_count = 0 /\ in_string = FALSE /\ escape = FALSE
    /\ papers = <<>> /\ paper_count = 0 /\ failed_count = 0

NoExtract == [i |-> 0, calls |-> 0, firstValid |-> 0, result |-> "-"]

RunIdle ==
    /\ pc = "idle" /\ resume = TRUE
    /\ processed_ids = {} /\ papers_to_process = <<>> /\ cursor = 0 /\ attempt = 0
    /\ processed = 0 /\ failed = <<>> /\ runs = 0
    /\ attempted = <<>> /\ wroteFor = {} /\ calls = 0 /\ firstValid = 0
    /\ lastExtract = NoExtract
    /\ appendDone = {} /\ appendStarted = {} /\ doneAtStart = {} /\ startedAtStart = {}
    /\ recAtStart = {} /\ lastEnd = "none" /\ prevEnd = "none"

BatchIdle ==
    /\ corpus = <<>> /\ exists = FALSE /\ file = <<>>
    /\ lastSaved = "-" /\ lastOp = "none"
    /\ RunIdle

InitParse ==
    /\ items \in SeqsUpTo(ItemSet, MaxItems)
    /\ content = Flatten(Texts(items))
    /\ max_papers \in 0..MaxLimit
    /\ ppc = "outer"
    /\ pos = 1 /\ start = 0 /\ idx = 0
    /\ brace_count = 0 /\ in_string = FALSE /\ escape = FALSE
    /\ papers = <<>> /\ paper_count = 0 /\ failed_count = 0
    /\ BatchIdle
    /\ is_review = FALSE /\ SelectIdle /\ StoreIdle /\ RestIdle

ScanFrame == <<items, content, max_papers, papers, paper_count, failed_count, start>>

\* the outer loop ends: pos is past the end, before or after skipping whitespace
OuterEnd ==
    /\ ppc = "outer"
    /\ SkipSpace(content, pos) > Len(content)
    /\ ppc' = "done"
    /\ pos' = SkipSpace(content, pos)
    /\ UNCHANGED <<bvars, gvars, svars, tvars, nvars, ScanFrame, idx, brace_count, in_string, escape>>

\* a character that does not open an object is stepped over
OuterSkipChar ==
    /\ ppc = "outer"
    /\ LET p == SkipSpace(content, pos) IN
        /\ p <= Len(content)
        /\ content[p] # "{"
        /\ pos' = p + 1
    /\ UNCHANGED <<bvars, gvars, svars, tvars, nvars, ScanFrame, ppc, idx, brace_count, in_string, escape>>

\* an opening brace starts a candidate and the inner loop
OuterStartCandidate ==
    /\ ppc = "outer"
    /\ LET p == SkipSpace(content, pos) IN
        /\ p <= Len(content)
        /\ content[p] = "{"
        /\ pos' = p /\ start' = p /\ idx' = p
    /\ brace_count' = 0 /\ in_string' = FALSE /\ escape' = FALSE
    /\ ppc' = "scan"
    /\ UNCHANGED <<bvars, gvars, svars, tvars, nvars, items, content, max_papers, papers, paper_count, failed_count>>

\* the for loop runs out of characters: its else branch leaves the outer loop
ScanExhausted ==
    /\ ppc = "scan"
    /\ idx > Len(content)
    /\ ppc' = "done"
    /\ UNCHANGED <<bvars, gvars, svars, tvars, nvars, ScanFrame, pos, idx, brace_count, in_string, escape>>

ScanEscapedToggles ==
    /\ ppc = "scan" /\ idx <= Len(content)
    /\ escape
    /\ escape' = FALSE
    /\ in_string' = IF content[idx] = "\"" THEN ~in_string ELSE in_string
    /\ idx' = idx + 1
    /\ UNCHANGED <<bvars, gvars, svars, tvars, nvars, ScanFrame, ppc, pos, brace_count>>

\* the character after a backslash is consumed, whatever it is
ScanEscaped ==
    /\ ppc = "scan" /\ idx <= Len(content)
    /\ escape
    /\ escape' = FALSE
    /\ idx' = idx + 1
    /\ UNCHANGED <<bvars, gvars, svars, tvars, nvars, ScanFrame, ppc, pos, brace_count, in_string>>

ScanBackslash ==
    /\ ppc = "scan" /\ idx <= Len(content)
    /\ ~escape /\ content[idx] = "\\"
    /\ escape' = TRUE
    /\ idx' = idx + 1
    /\ UNCHANGED <<bvars, gvars, svars, tvars, nvars, ScanFrame, ppc, pos, brace_count, in_string>>

ScanQuote ==
    /\ ppc = "scan" /\ idx <= Len(content)
    /\ ~escape /\ content[idx] = "\""
    /\ in_string' = ~in_string
    /\ idx' = idx + 1
    /\ UNCHANGED <<bvars, gvars, svars, tvars, nvars, ScanFrame, ppc, pos, brace_count, escape>>

ScanOpenBrace ==
    /\ ppc = "scan" /\ idx <= Len(content)
    /\ ~escape /\ ~in_string /\ content[idx] = "{"
    /\ brace_count' = brace_count + 1
    /\ idx' = idx + 1
    /\ UNCHANGED <<bvars, gvars, svars, tvars, nvars, ScanFrame, ppc, pos, in_string, escape>>

\* a closing brace that leaves the candidate open
ScanCloseInner ==
    /\ ppc = "scan" /\ idx <= Len(content)
    /\ ~escape /\ ~in_string /\ content[idx] = "}"
    /\ brace_count - 1 # 0
    /\ brace_count' = brace_count - 1
    /\ idx' = idx + 1
    /\ UNCHANGED <<bvars, gvars, svars, tvars, nvars, ScanFrame, ppc, pos, in_string, escape>>

\* any other character, and a brace inside a string
ScanPlain ==
    /\ ppc = "scan" /\ idx <= Len(content)
    /\ ~escape /\ content[idx] \notin {"\\", "\""}
    /\ in_string \/ content[idx] \notin {"{", "}"}
    /\ idx' = idx + 1
    /\ UNCHANGED <<bvars, gvars, svars, tvars, nvars, ScanFrame, ppc, pos, brace_count, in_string, escape>>

\* the brace that closes the candidate, which json.loads accepts
CloseParsed ==
    /\ ppc = "scan" /\ idx <= Len(content)
    /\ ~escape /\ ~in_string /\ content[idx] = "}"
    /\ brace_count - 1 = 0
    /\ LET r == JsonLoads(SubSeq(content, start, idx)) IN
        /\ r.ok
        /\ papers' = Append(papers, r.val)
    /\ paper_count' = paper_count + 1
    /\ brace_count' = 0
    /\ IF max_papers # 0 /\ paper_count + 1 >= max_papers
       THEN ppc' = "done" /\ pos' = pos
       ELSE ppc' = "outer" /\ pos' = idx + 1
    /\ UNCHANGED <<bvars, gvars, svars, tvars, nvars, items, content, max_papers, failed_count, start, idx, in_string, escape>>

CloseRejectedRescans ==
    /\ ppc = "scan" /\ idx <= Len(content)
    /\ ~escape /\ ~in_string /\ content[idx] = "}"
    /\ brace_count - 1 = 0
    /\ ~JsonLoads(SubSeq(content, start, idx)).ok
    /\ failed_count' = failed_count + 1
    /\ brace_count' = 0
    /\ ppc' = "outer" /\ pos' = start + 1
    /\ UNCHANGED <<bvars, gvars, svars, tvars, nvars, items, content, max_papers, papers, paper_count, start, idx, in_string, escape>>

\* the brace that closes the candidate, which json.loads rejects
CloseRejected ==
    /\ ppc = "scan" /\ idx <= Len(content)
    /\ ~escape /\ ~in_string /\ content[idx] = "}"
    /\ brace_count - 1 = 0
    /\ ~JsonLoads(SubSeq(content, start, idx)).ok
    /\ failed_count' = failed_count + 1
    /\ brace_count' = 0
    /\ ppc' = "outer" /\ pos' = idx + 1
    /\ UNCHANGED <<bvars, gvars, svars, tvars, nvars, items, content, max_papers, papers, paper_count, start, idx, in_string, escape>>

NextParse ==
    \/ OuterEnd
    \/ OuterSkipChar
    \/ OuterStartCandidate
    \/ ScanExhausted
    \/ ScanEscaped
    \/ ScanBackslash
    \/ ScanQuote
    \/ ScanOpenBrace
    \/ ScanCloseInner
    \/ ScanPlain
    \/ CloseParsed
    \/ CloseRejected

SpecParse == InitParse /\ [][NextParse]_vars

-----------------------------------------------------------------------------
(* The output file.  It is a sequence of lines; a line is the sequence of   *)
(* pieces that writes put on it.  A piece is                                *)
(*   "full"   json.dumps(result) + newline, a completed _save_single_result *)
(*   "json"   json.dumps(result) whose newline was never written            *)
(*   "part"   a proper prefix of json.dumps(result), valid UTF-8            *)
(*   "cut"    a proper prefix that ends inside a multi-byte character       *)
(*            (ensure_ascii=False writes non-ASCII text as UTF-8)           *)
(* and, for files the pipeline did not write alone, the complete lines      *)
(*   "nokey"  a JSON object without paper_id     "scalar"  JSON, no object  *)
(*   "text"   not JSON                           "blank"   an empty line    *)
(* Only the last piece of a line may end it, and only the last line of the  *)
(* file may be open.  src is the corpus index a record was written for (a   *)
(* ghost; 0 outside the pipeline).                                          *)

\* paper.get('id'): "null" is None, an absent id or a JSON null
Ids == {"p1", "p2", "null"}

Piece(k, pid, src) == [k |-> k, pid |-> pid, src |-> src]

EndsLine == {"full", "nokey", "scalar", "text", "blank"}
PartialKinds == {"json", "part", "cut"}

\* what a write that stops early leaves behind for a record with this id
PartialPiece(w, pid, src) == Piece(w, IF w = "json" THEN pid ELSE "-", src)

TailOpen(f) == f # <<>> /\ f[Len(f)][Len(f[Len(f)])].k \notin EndsLine

\* open(output_file, 'a').write(text): the bytes go after the last byte of the file
WriteAppend(f, piece) ==
    IF TailOpen(f) THEN [f EXCEPT ![Len(f)] = Append(@, piece)]
    ELSE Append(f, <<piece>>)

\* _save_single_result
SaveSingleResult(f, pid, src) == WriteAppend(f, Piece("full", pid, src))

\* json.loads(line.strip()) returns a dict that has a paper_id
LineParses(line) == Len(line) = 1 /\ line[1].k \in {"full", "json"}

\* the line holds bytes that are not UTF-8: a cut character followed by more bytes
Undecodable(line) == \E k \in 1..(Len(line) - 1) : line[k].k = "cut"

FirstUndecodable(f) ==
    IF \E j \in 1..Len(f) : Undecodable(f[j])
    THEN CHOOSE j \in 1..Len(f) : Undecodable(f[j]) /\ \A h \in 1..(j - 1) : ~Undecodable(f[h])
    ELSE 0

IdsOfLines(f, n) == {f[j][1].pid : j \in {h \in 1..n : LineParses(f[h])}}

Min(a, b) == IF a <= b THEN a ELSE b

\* _load_processed_papers.  The text layer decodes the file chunk by chunk:
\* a chunk with undecodable bytes raises before any of its lines is yielded, and
\* the outer except returns what the lines of the earlier chunks gave.  m is the
\* number of lines that lie before the chunk of the first undecodable byte (it
\* depends on the byte lengths, which the model leaves open).  A cut character
\* at the very end of the file raises only after every line before it was read.
LoadProcessedPapers(f, ex, m) ==
    IF ~ex THEN {}
    ELSE IF FirstUndecodable(f) = 0 THEN IdsOfLines(f, Len(f))
    ELSE IdsOfLines(f, Min(m, FirstUndecodable(f) - 1))

RECURSIVE FileSize(_)
FileSize(f) == IF f = <<>> THEN 0 ELSE Len(Head(f)) + FileSize(Tail(f))

\* the writes that stopped early
RECURSIVE NumPartial(_)
NumPartial(f) ==
    IF f = <<>> THEN 0
    ELSE Cardinality({k \in 1..Len(Head(f)) : Head(f)[k].k \in PartialKinds})
             + NumPartial(Tail(f))

\* the indices of the corpus that have a record in the file
RecordsIn(f) == {f[j][1].src : j \in {h \in 1..Len(f) : LineParses(f[h])}}

-----------------------------------------------------------------------------
(* The file specification: _save_single_result, a write that a crash cuts   *)
(* short and _load_processed_papers, applied in any order to any file.      *)

ForeignLines ==
    {<<Piece("full", pid, 0)>> : pid \in Ids}
        \cup {<<Piece(k, "-", 0)>> : k \in {"nokey", "scalar", "text", "blank"}}

InitFile ==
    /\ exists \in BOOLEAN
    /\ file \in (IF exists THEN SeqsUpTo(ForeignLines, MaxInitLines) ELSE {<<>>})
    /\ lastSaved = "-" /\ lastOp = "none"
    /\ corpus = <<>>
    /\ RunIdle
    /\ ParseIdle
    /\ is_review = FALSE /\ SelectIdle /\ StoreIdle /\ RestIdle

FileFrame == <<pvars, svars, tvars, nvars, corpus, pc, resume, papers_to_process, cursor, attempt, processed,
               failed, runs, attempted, wroteFor, calls, firstValid, lastExtract,
               appendDone, appendStarted, doneAtStart, startedAtStart, recAtStart,
               lastEnd, prevEnd>>

FileSave ==
    /\ FileSize(file) < MaxPieces
    /\ \E pid \in Ids :
        /\ file' = SaveSingleResult(file, pid, 0)
        /\ lastSaved' = pid
    /\ exists' = TRUE
    /\ lastOp' = "save"
    /\ UNCHANGED <<FileFrame, processed_ids>>

\* the process dies inside f.write / the flush at close: a prefix is on disk
FileCrashedSave ==
    /\ FileSize(file) < MaxPieces
    /\ \E pid \in Ids, w \in PartialKinds :
        file' = WriteAppend(file, PartialPiece(w, pid, 0))
    /\ exists' = TRUE
    /\ lastSaved' = "-"
    /\ lastOp' = "crash"
    /\ UNCHANGED <<FileFrame, processed_ids>>

FileLoad ==
    /\ lastOp # "load"
    /\ \E m \in 0..Len(file) : processed_ids' = LoadProcessedPapers(file, exists, m)
    /\ lastOp' = "load"
    /\ UNCHANGED <<FileFrame, exists, file, lastSaved>>

NextFile == FileSave \/ FileCrashedSave \/ FileLoad

SpecFile == InitFile /\ [][NextFile]_vars

-----------------------------------------------------------------------------
(* batch_process.  A record of the corpus is [id, kind]; kind says what the *)
(* loop body meets for it:                                                  *)
(*   "ok"           a title string and sections; metadata found with a      *)
(*                  publish_year string or none, or no metadata at all (a   *)
(*                  lookup miss gives {}, which only feeds .get calls)      *)
(*   "intYear"      metadata whose publish_year is a number, not a string   *)
(*   "badSections"  "sections": null, which extract_key_content iterates    *)
(*   "nullTitle"    "title": null, which the loop body slices               *)
(*   "noSections"   "sections": [] (or none): the key content is the empty  *)
(*                  text, from which the prompt is built all the same       *)

Kinds == {"ok", "intYear", "badSections", "nullTitle", "noSections"}

Records == [id : Ids, kind : Kinds]

\* max_retries of extract_reasoning_chain
max_retries == 3

\* what one call of the LLM gives: a JSON object with every required field, one
\* that lacks a field, text that json.loads rejects, or an exception of the client
LlmOutcomes == {"complete", "missing", "badjson", "exception"}

Indices(c) == 1..Len(c)

RECURSIVE SelectIndices(_, _, _)
SelectIndices(c, i, skip) ==
    IF i > Len(c) THEN <<>>
    ELSE (IF c[i].id \in skip THEN <<>> ELSE <<i>>) \o SelectIndices(c, i + 1, skip)

\* papers_to_process: [p for p in papers if p.get('id') not in processed_ids] when
\* resume and processed_ids, else papers
ToProcessUnfiltered(c, r, ids) == SelectIndices(c, 1, {})
ToProcess(c, r, ids) ==
    IF r /\ ids # {} THEN SelectIndices(c, 1, ids) ELSE SelectIndices(c, 1, {})

\* "p1" and "p2" are interchangeable: of two corpora that differ only by swapping
\* them, the one whose first named record is "p1" stands for both
Canonical(c) ==
    \A i \in Indices(c) : c[i].id = "p2" => \E h \in 1..(i - 1) : c[h].id = "p1"

InitBatch ==
    /\ corpus \in {c \in SeqsUpTo(Records, MaxPapers) :
                    Canonical(c) /\ Cardinality({i \in Indices(c) : c[i].kind # "ok"}) <= MaxOdd}
    /\ exists = FALSE /\ file = <<>>
    /\ lastSaved = "-" /\ lastOp = "none"
    /\ RunIdle
    /\ ParseIdle
    /\ is_review = FALSE /\ SelectIdle /\ StoreIdle /\ RestIdle

\* batch_process with a max_papers argument, on a corpus of more records than that;
\* the output file is not there, or an interrupted earlier run left a line cut short
InitLimited ==
    /\ max_papers \in 1..MaxLimit
    /\ corpus \in {c \in SeqsUpTo(Records, MaxLimit + 1) :
                    /\ Len(c) > max_papers
                    /\ Canonical(c)
                    /\ Cardinality({i \in Indices(c) : c[i].kind # "ok"}) <= MaxOdd}
    /\ file \in {<<>>, <<<<PartialPiece("part", "-", 0)>>>>}
    /\ exists = (file # <<>>)
    /\ lastSaved = "-" /\ lastOp = "none"
    /\ RunIdle
    /\ items = <<>> /\ content = <<>> /\ ppc = "done"
    /\ pos = 1 /\ start = 0 /\ idx = 0
    /\ brace_count = 0 /\ in_string = FALSE /\ escape = FALSE
    /\ papers = <<>> /\ paper_count = 0 /\ failed_count = 0
    /\ is_review = FALSE /\ SelectIdle /\ StoreIdle /\ RestIdle

Stopped == pc \in {"idle", "done", "returned", "fatal"}

\* the list parse_contents_file returns of a stream whose valid records are c: with
\* a limit, it returns as soon as the list holds that many records
Parsed(c, limit) == IF limit # 0 /\ Len(c) >= limit THEN SubSeq(c, 1, limit) ELSE c

\* the record of this iteration of the for loop
Cur == papers_to_process[cursor]

RunFrame == <<pvars, svars, tvars, nvars, corpus, resume, processed_ids, papers_to_process, runs,
              doneAtStart, startedAtStart, recAtStart, prevEnd, lastOp>>

\* the process is gone: its locals are, and with them what the run had in memory
ProcessGone ==
    /\ cursor' = 0 /\ attempt' = 0 /\ processed' = 0 /\ failed' = <<>>
    /\ attempted' = <<>> /\ wroteFor' = {} /\ calls' = 0 /\ firstValid' = 0
    /\ lastExtract' = NoExtract

\* main() calls batch_process without a resume argument: the default, True
ResumeArgument == TRUE

\* batch_process up to the for loop: the checkpoint set, the corpus, the filter
StartRun ==
    /\ Stopped
    /\ runs < MaxRuns
    /\ \E m \in 0..Len(file) :
        LET r == ResumeArgument
            ids == IF r THEN LoadProcessedPapers(file, exists, m) ELSE {}
            todo == ToProcess(Parsed(corpus, max_papers), r, ids)
        IN  /\ resume' = r
            /\ processed_ids' = ids
            /\ papers_to_process' = todo
            /\ pc' = IF corpus = <<>> \/ todo = <<>> THEN "returned" ELSE "loop"
            /\ lastEnd' = IF corpus = <<>> \/ todo = <<>> THEN "returned" ELSE lastEnd
    /\ runs' = runs + 1
    /\ cursor' = 1 /\ attempt' = 0 /\ processed' = 0 /\ failed' = <<>>
    /\ attempted' = <<>> /\ wroteFor' = {} /\ calls' = 0 /\ firstValid' = 0
    /\ lastExtract' = NoExtract
    /\ doneAtStart' = appendDone
    /\ startedAtStart' = appendStarted
    /\ recAtStart' = RecordsIn(file)
    /\ prevEnd' = lastEnd
    /\ UNCHANGED <<pvars, svars, tvars, nvars, corpus, exists, file, appendDone, appendStarted, lastSaved, lastOp>>

\* "title": null: paper_title[:60] raises, and so does the handler's
\* paper.get('title', 'Unknown')[:40]; the exception leaves batch_process
RecordFatal ==
    /\ pc = "loop" /\ cursor <= Len(papers_to_process)
    /\ corpus[Cur].kind = "nullTitle"
    /\ pc' = "fatal"
    /\ lastEnd' = "fatal"
    /\ ProcessGone
    /\ UNCHANGED <<RunFrame, exists, file, appendDone, appendStarted, lastSaved>>

\* extract_reasoning_chain is called and extract_key_content raises before the
\* first LLM call; the loop's except puts the record on the failure list
RecordRaises ==
    /\ pc = "loop" /\ cursor <= Len(papers_to_process)
    /\ corpus[Cur].kind = "badSections"
    /\ attempted' = Append(attempted, Cur)
    /\ failed' = Append(failed, Cur)
    /\ cursor' = cursor + 1
    /\ calls' = 0 /\ firstValid' = 0
    /\ lastExtract' = NoExtract
    /\ UNCHANGED <<RunFrame, exists, file, pc, attempt, processed, wroteFor,
                   appendDone, appendStarted, lastEnd, lastSaved>>

\* extract_reasoning_chain is called and reaches its retry loop
RecordExtract ==
    /\ pc = "loop" /\ cursor <= Len(papers_to_process)
    /\ corpus[Cur].kind \in {"ok", "intYear", "noSections"}
    /\ attempted' = Append(attempted, Cur)
    /\ attempt' = 0
    /\ calls' = 0 /\ firstValid' = 0
    /\ pc' = "extract"
    /\ lastExtract' = NoExtract
    /\ UNCHANGED <<RunFrame, exists, file, cursor, processed, failed, wroteFor,
                   appendDone, appendStarted, lastEnd, lastSaved>>

\* one pass of the retry loop ends without an exception: the response is complete
\* and the result record is built
AttemptSucceeds(kind, out) == out = "complete" /\ kind # "intYear"

NoteCall(out) ==
    /\ calls' = calls + 1
    /\ firstValid' = IF out = "complete" /\ firstValid = 0 THEN calls + 1 ELSE firstValid

LlmSuccess ==
    /\ pc = "extract"
    /\ \E out \in LlmOutcomes :
        /\ AttemptSucceeds(corpus[Cur].kind, out)
        /\ NoteCall(out)
        /\ lastExtract' = [i |-> Cur, calls |-> calls + 1,
                           firstValid |-> IF firstValid = 0 THEN calls + 1 ELSE firstValid,
                           result |-> "chain"]
    /\ pc' = "save"
    /\ UNCHANGED <<RunFrame, exists, file, cursor, attempt, processed, failed, attempted,
                   wroteFor, appendDone, appendStarted, lastEnd, lastSaved>>

\* the except of the retry loop, not on the last attempt
LlmRetry ==
    /\ pc = "extract"
    /\ attempt # max_retries - 1
    /\ \E out \in LlmOutcomes :
        /\ ~AttemptSucceeds(corpus[Cur].kind, out)
        /\ NoteCall(out)
    /\ attempt' = attempt + 1
    /\ UNCHANGED <<RunFrame, exists, file, pc, cursor, processed, failed, attempted,
                   wroteFor, lastExtract, appendDone, appendStarted, lastEnd, lastSaved>>

\* the except of the retry loop on the last attempt: None is returned and the loop
\* of batch_process puts the record on the failure list
LlmGiveUp ==
    /\ pc = "extract"
    /\ attempt = max_retries - 1
    /\ \E out \in LlmOutcomes :
        /\ ~AttemptSucceeds(corpus[Cur].kind, out)
        /\ NoteCall(out)
        /\ lastExtract' = [i |-> Cur, calls |-> calls + 1,
                           firstValid |-> IF out = "complete" /\ firstValid = 0
                                          THEN calls + 1 ELSE firstValid,
                           result |-> "none"]
    /\ failed' = Append(failed, Cur)
    /\ cursor' = cursor + 1
    /\ pc' = "loop"
    /\ UNCHANGED <<RunFrame, exists, file, attempt, processed, attempted, wroteFor,
                   appendDone, appendStarted, lastEnd, lastSaved>>

\* _save_single_result completes
SaveOk ==
    /\ pc = "save"
    /\ file' = SaveSingleResult(file, corpus[Cur].id, Cur)
    /\ exists' = TRUE
    /\ processed' = processed + 1
    /\ cursor' = cursor + 1
    /\ pc' = "loop"
    /\ wroteFor' = wroteFor \cup {Cur}
    /\ appendDone' = appendDone \cup {Cur}
    /\ appendStarted' = appendStarted \cup {Cur}
    /\ lastSaved' = corpus[Cur].id
    /\ calls' = 0 /\ firstValid' = 0 /\ attempt' = 0
    /\ lastExtract' = NoExtract
    /\ UNCHANGED <<RunFrame, failed, attempted, lastEnd>>

\* _save_single_result raises before a byte is written (the file cannot be opened,
\* the disk is full): the loop's except puts the record on the failure list
SaveRaises ==
    /\ pc = "save"
    /\ failed' = Append(failed, Cur)
    /\ cursor' = cursor + 1
    /\ pc' = "loop"
    /\ calls' = 0 /\ firstValid' = 0 /\ attempt' = 0
    /\ lastExtract' = NoExtract
    /\ UNCHANGED <<RunFrame, exists, file, wroteFor, appendStarted, lastSaved, processed,
                   attempted, appendDone, lastEnd>>

\* the process is killed outside a write
Crash ==
    /\ pc \in {"loop", "extract", "save"}
    /\ pc' = "idle"
    /\ lastEnd' = "crash"
    /\ ProcessGone
    /\ UNCHANGED <<RunFrame, exists, file, appendDone, appendStarted, lastSaved>>

\* the process is killed inside _save_single_result: a prefix of the line is on disk
CrashInSave ==
    /\ pc = "save"
    /\ NumPartial(file) < MaxPartial
    /\ \E w \in PartialKinds :
        file' = WriteAppend(file, PartialPiece(w, corpus[Cur].id, Cur))
    /\ exists' = TRUE
    /\ appendStarted' = appendStarted \cup {Cur}
    /\ lastSaved' = "-"
    /\ pc' = "idle"
    /\ lastEnd' = "crash"
    /\ ProcessGone
    /\ UNCHANGED <<RunFrame, appendDone>>

\* the for loop is over: the failure log and the run summary are written
FinishRun ==
    /\ pc = "loop" /\ cursor > Len(papers_to_process)
    /\ pc' = "done"
    /\ lastEnd' = "done"
    /\ calls' = 0 /\ firstValid' = 0 /\ attempt' = 0
    /\ lastExtract' = NoExtract
    /\ UNCHANGED <<RunFrame, exists, file, cursor, processed, failed, attempted,
                   wroteFor, appendDone, appendStarted, lastSaved>>

\* the counts of the run log (reasoning_extraction_log.json)
LogData ==
    [total_papers |-> Len(Parsed(corpus, max_papers)),
     previously_processed |-> Cardinality(processed_ids),
     this_batch_processed |-> processed,
     cumulative_processed |-> Cardinality(processed_ids) + processed,
     this_batch_failed |-> Len(failed)]

Next ==
    \/ StartRun
    \/ RecordFatal
    \/ RecordRaises
    \/ RecordExtract
    \/ LlmSuccess
    \/ LlmRetry
    \/ LlmGiveUp
    \/ SaveOk
    \/ SaveRaises
    \/ Crash
    \/ CrashInSave
    \/ FinishRun

Spec == InitBatch /\ [][Next]_vars

SpecLimited == InitLimited /\ [][Next]_vars

-----------------------------------------------------------------------------
(* extract_key_content.  A section is [section_title, section_text]; a text  *)
(* item is a string or a dict with a 'content'; a paragraph is a sequence of *)
(* characters.  The returned text is "\n".join(final_parts); a part is       *)
(* modelled as a block [key, parts], each part [title, label, paras]         *)
(* standing for "\n## title label:\n" + "\n".join(paras).                    *)

\* sections of one paper
MaxSections == 3

key_section_keys == <<"introduction", "main", "methods", "results", "discussion", "conclusion">>

methods_keywords ==
    {"methods", "method", "experimental procedures", "experimental procedure",
     "materials and methods", "materials & methods", "procedures"}

exclude_keywords ==
    {"references", "reference", "rights and permissions", "rights & permissions",
     "author information", "author contributions", "authors",
     "acknowledgments", "acknowledgement", "supplementary", "supplemental",
     "data availability", "code availability", "competing interests",
     "conflict of interest", "ethics", "ethical", "peer review", "reviewer",
     "publisher", "copyright", "about this article", "about the article",
     "article history", "publication history"}

\* the titles the model draws from, with the keywords of the three lists above
\* that are substrings of the lower-cased title, and the title's length
KeywordsIn(title) ==
    CASE title = "Main" -> {"main"}
      [] title = "Introduction" -> {"introduction"}
      [] title = "Methods" -> {"methods", "method"}
      [] title = "Results" -> {"results"}
      [] title = "Discussion" -> {"discussion"}
      [] title = "Main findings of the study" -> {"main"}
      [] title = "References" -> {"references", "reference"}
      [] title = "Supplementary information" -> {"supplementary"}
      [] OTHER -> {}

TitleLen(title) ==
    CASE title = "Main" -> 4
      [] title = "Introduction" -> 12
      [] title = "Methods" -> 7
      [] title = "Results" -> 7
      [] title = "Discussion" -> 10
      [] title = "Abstract" -> 8
      [] title = "Main findings of the study" -> 26
      [] title = "References" -> 10
      [] title = "Supplementary information" -> 25
      [] OTHER -> 0

ResearchTitles == {"Main", "Introduction", "Methods", "Results", "Discussion"}

\* titles that are no Main, Methods, Results or Discussion header
OtherTitles == {"Abstract", "Main findings of the study"}

ReviewTitles == {"Main", "Results", "References", "Supplementary information"}

TextItem(form, chars) == [form |-> form, content |-> chars]

\* the section_text lists the model draws from: only blank; one paragraph; three
\* paragraphs and a blank one
OneParagraph == <<TextItem("dict", <<"a">>)>>

LongText ==
    <<TextItem("str", <<"a">>), TextItem("str", <<" ">>), TextItem("dict", <<" ", "b">>),
      TextItem("str", <<"a", "b">>)>>

SectionTexts == {<<TextItem("str", <<" ">>)>>, OneParagraph, LongText}

Section(title, texts) == [section_title |-> title, section_text |-> texts]

\* the texts the model gives a section of a title: all of them to the sections the
\* excerpt is made of, fewer to the others
ResearchTextsOf(title) ==
    CASE title \in {"Methods", "Results", "Discussion"} -> SectionTexts
      [] title = "Main" -> {OneParagraph, LongText}
      [] title = "Introduction" -> {LongText}
      [] OTHER -> {OneParagraph}

ReviewTextsOf(title) ==
    CASE title = "Results" -> SectionTexts
      [] title = "References" -> {OneParagraph, LongText}
      [] OTHER -> {OneParagraph}

ResearchSections ==
    UNION {{Section(t, x) : x \in ResearchTextsOf(t)} : t \in ResearchTitles \cup OtherTitles}

ReviewSections == UNION {{Section(t, x) : x \in ReviewTextsOf(t)} : t \in ReviewTitles}

MediaItem(type, name, caption, legend) ==
    [type |-> type, name |-> name, caption |-> caption, legend |-> legend]

MediaLists ==
    { <<>>,
      <<MediaItem("table", "Table 1", "", "")>>,
      <<MediaItem("figure", "", "", ""), MediaItem("figure", "Fig. 1", "c", "l")>> }

\* text.strip()
RECURSIVE LStrip(_)
LStrip(t) == IF t # <<>> /\ Head(t) \in Whitespace THEN LStrip(Tail(t)) ELSE t

RECURSIVE RStrip(_)
RStrip(t) ==
    IF t # <<>> /\ t[Len(t)] \in Whitespace THEN RStrip(SubSeq(t, 1, Len(t) - 1)) ELSE t

Strip(t) == RStrip(LStrip(t))

\* the loop over section_texts: the stripped texts that are not empty, in order
SectionContentCut(texts) ==
    LET first == {j \in DOMAIN texts : Strip(texts[j].content) # <<>>} IN
    IF first = {} THEN <<>>
    ELSE <<Strip(texts[CHOOSE j \in first : \A h \in first : j <= h].content)>>
RECURSIVE SectionContent(_)
SectionContent(texts) ==
    IF texts = <<>> THEN <<>>
    ELSE LET text == Strip(Head(texts).content) IN
         (IF text # <<>> THEN <<text>> ELSE <<>>) \o SectionContent(Tail(texts))

Part(title, label, paras) == [title |-> title, label |-> label, paras |-> paras]
Block(key, parts) == [key |-> key, parts |-> parts]

\* the loop over media_data: one caption line per item that has any of the three
RECURSIVE FigureCaptions(_)
FigureCaptions(media) ==
    IF media = <<>> THEN <<>>
    ELSE LET m == Head(media) IN
         (IF m.caption # "" \/ m.legend # "" \/ m.name # "" THEN <<m>> ELSE <<>>)
             \o FigureCaptions(Tail(media))

\* review mode: a title that contains a keyword of the denylist
ShouldExcludeExact(title) == title \in exclude_keywords
ShouldExclude(title) == KeywordsIn(title) \cap exclude_keywords # {}

\* review mode: the sections kept, each with its content, in document order
RECURSIVE ReviewParts(_)
ReviewParts(secs) ==
    IF secs = <<>> THEN <<>>
    ELSE LET section == Head(secs)
             section_content == SectionContent(section.section_text)
         IN  (IF ~ShouldExclude(section.section_title) /\ section_content # <<>>
              THEN <<Block("section", <<Part(section.section_title, "", section_content)>>)>>
              ELSE <<>>) \o ReviewParts(Tail(secs))

FiguresBlock(media, label) ==
    IF FigureCaptions(media) # <<>>
    THEN <<Block("figures", <<Part("Figures and Tables", label, FigureCaptions(media))>>)>>
    ELSE <<>>

\* research mode: the last section that is a Main, the last that is a Discussion
\* (1-based; 0 stands for None)
LastIndex(hits) ==
    IF hits = {} THEN 0 ELSE CHOOSE i \in hits : \A h \in hits : h <= i

IsMain(title) == "main" \in KeywordsIn(title) /\ TitleLen(title) < 20
IsDiscussion(title) == "discussion" \in KeywordsIn(title)

main_idx(secs) == LastIndex({i \in DOMAIN secs : IsMain(secs[i].section_title)})
discussion_idx(secs) == LastIndex({i \in DOMAIN secs : IsDiscussion(secs[i].section_title)})

\* the sections between Main and Discussion
nature_results_sections(secs) ==
    IF main_idx(secs) # 0 /\ discussion_idx(secs) # 0
           /\ discussion_idx(secs) > main_idx(secs) + 1
    THEN (main_idx(secs) + 1)..(discussion_idx(secs) - 1)
    ELSE {}

\* the first key of key_section_keys that the title contains ("none": no key)
FirstKey(title) ==
    LET hits == {k \in DOMAIN key_section_keys : key_section_keys[k] \in KeywordsIn(title)} IN
    IF hits = {} THEN "none"
    ELSE key_section_keys[CHOOSE k \in hits : \A h \in hits : k <= h]

matched_key(secs, i) ==
    IF i \in nature_results_sections(secs) THEN "results"
    ELSE IF KeywordsIn(secs[i].section_title) \cap methods_keywords # {} THEN "methods"
    ELSE FirstKey(secs[i].section_title)

Label(key) ==
    CASE key \in {"introduction", "main"} -> "[IMPORTANT FOR PROBLEM ANALYSIS]"
      [] key = "methods" -> "[IMPORTANT FOR DATA & METHODS]"
      [] key = "results" -> "[IMPORTANT FOR CONCLUSION - FINDINGS]"
      [] key = "discussion" -> "[IMPORTANT FOR CONCLUSION - SIGNIFICANCE]"
      [] OTHER -> ""

NoSections == [k \in Range(key_section_keys) |-> <<>>]

\* sections_dict after the loop has handled sections i, i + 1, ...; a key that is
\* not in the dict maps to <<>> (a stored value is never empty)
RECURSIVE SectionsDict(_, _, _)
SectionsDict(secs, i, dict) ==
    IF i > Len(secs) THEN dict
    ELSE LET key == matched_key(secs, i)
             section_content == SectionContent(secs[i].section_text)
             title == secs[i].section_title
         IN  IF key = "none" \/ section_content = <<>>
             THEN SectionsDict(secs, i + 1, dict)
             ELSE IF key = "results" /\ dict["results"] # <<>>
             THEN SectionsDict(secs, i + 1,
                    [dict EXCEPT !["results"] = Append(@, Part(title, "", section_content))])
             ELSE SectionsDict(secs, i + 1,
                    [dict EXCEPT ![key] = <<Part(title, Label(key), section_content)>>])

sections_dict(secs) == SectionsDict(secs, 1, NoSections)

DictBlock(dict, key) == IF dict[key] # <<>> THEN <<Block(key, dict[key])>> ELSE <<>>

\* research mode: Introduction (else Main), Methods, Figures, Results, Discussion
ResearchPartsFiguresLast(secs, media) ==
    LET dict == sections_dict(secs) IN
    (IF dict["introduction"] # <<>> THEN DictBlock(dict, "introduction")
     ELSE DictBlock(dict, "main"))
        \o DictBlock(dict, "methods")
        \o DictBlock(dict, "results")
        \o DictBlock(dict, "discussion")
        \o FiguresBlock(media, "[IMPORTANT FOR DATA & METHODS]")
ResearchParts(secs, media) ==
    LET dict == sections_dict(secs) IN
    (IF dict["introduction"] # <<>> THEN DictBlock(dict, "introduction")
     ELSE DictBlock(dict, "main"))
        \o DictBlock(dict, "methods")
        \o FiguresBlock(media, "[IMPORTANT FOR DATA & METHODS]")
        \o DictBlock(dict, "results")
        \o DictBlock(dict, "discussion")

ExtractKeyContent(secs, media, review) ==
    IF review THEN ReviewParts(secs) \o FiguresBlock(media, "")
    ELSE ResearchParts(secs, media)

InitSelect ==
    /\ is_review \in BOOLEAN
    /\ sections_list \in SeqsUpTo(IF is_review THEN ReviewSections ELSE ResearchSections,
                                  MaxSections)
    /\ media_data \in MediaLists
    /\ final_parts = <<>>
    /\ kpc = "input"
    /\ BatchIdle /\ ParseIdle /\ StoreIdle /\ RestIdle

CallExtractKeyContent ==
    /\ kpc = "input"
    /\ final_parts' = ExtractKeyContent(sections_list, media_data, is_review)
    /\ kpc' = "done"
    /\ UNCHANGED <<pvars, bvars, gvars, tvars, nvars, sections_list, media_data, is_review>>

NextSelect == CallExtractKeyContent

SpecSelect == InitSelect /\ [][NextSelect]_vars

\* the sections of a record of the batch model that reaches extract_reasoning_chain
SectionsOfKind(kind) ==
    IF kind = "noSections" THEN <<>>
    ELSE <<Section("Results", <<TextItem("str", <<"a">>)>>)>>

\* key_content of extract_reasoning_chain (research mode, no media)
key_content(paper) == ExtractKeyContent(SectionsOfKind(paper.kind), <<>>, FALSE)

-----------------------------------------------------------------------------
(* The record extract_reasoning_chain returns, the line batch_process      *)
(* appends for it, and build_database of build_db.py and of                *)
(* build_hybrid_reasoning_db.py (SpecStore).                               *)
(*                                                                         *)
(* A JSON value is a record [t, n, s]: its type, its number (for a bool, 1 *)
(* or 0) and its string.  A dict is a function on the keys it has.         *)

Null == [t |-> "null", n |-> 0, s |-> ""]
Str(s) == [t |-> "str", n |-> 0, s |-> s]
Num(n) == [t |-> "int", n |-> n, s |-> ""]
Bool(b) == [t |-> "bool", n |-> IF b THEN 1 ELSE 0, s |-> ""]

\* d.get(key) and d.get(key, default)
Get(d, key) == IF key \in DOMAIN d THEN d[key] ELSE Null
GetOr(d, key, default) == IF key \in DOMAIN d THEN d[key] ELSE default

\* the truth value Python gives a value
Truthy(v) ==
    CASE v.t = "null" -> FALSE
      [] v.t = "str" -> v.s # ""
      [] OTHER -> v.n # 0

\* v or default
OrElse(v, default) == IF Truthy(v) THEN v ELSE default

\* int(s) of the strings of digits in use
ParseInt(s) == CASE s = "2020" -> 2020

\* int(v) and bool(v)
IntOf(v) == IF v.t = "str" THEN Num(ParseInt(v.s)) ELSE Num(v.n)
BoolOf(v) == Bool(Truthy(v))

\* s.split('/')[0]
SplitFirst(s) == CASE s = "2020/05" -> "2020" [] OTHER -> s

\* how an f-string renders a value
Format(v) ==
    CASE v.t = "null" -> "None"
      [] v.t = "str" -> v.s
      [] v.t = "int" -> IF v.n = 2020 THEN "2020" ELSE "0"
      [] OTHER -> IF v.n = 1 THEN "True" ELSE "False"

ReasoningFields == {"problem_decomposition", "data", "method", "conclusion", "evidence", "framework"}

required_fields(review) ==
    IF review THEN {"problem_decomposition", "evidence", "framework", "conclusion"}
    ELSE {"problem_decomposition", "data", "method", "conclusion"}

\* the decoded LLM responses: any of the six fields may be missing and a field that
\* is there holds text; in a response with all six, problem_decomposition may also
\* hold null or the empty string
Responses ==
    UNION {[K -> {Str("t")}] : K \in SUBSET ReasoningFields}
    \cup {[k \in ReasoningFields |-> IF k = "problem_decomposition" THEN v ELSE Str("t")] :
             v \in {Null, Str("")}}

\* paper_content: id and doi may be missing
PaperContents ==
    {[k \in K \cup {"title"} |-> Str(k)] : K \in SUBSET {"id", "doi"}}

\* the metadata matched to the paper: every key may be missing; publish_year is the
\* string of the metadata file or, in one metadata with every key, a number
MetadataKeys == {"journal", "publish_year", "citation_count", "is_open_access"}

MetadataWith(K, y) ==
    [k \in K |->
        CASE k = "journal" -> Str("J")
          [] k = "publish_year" -> y
          [] k = "citation_count" -> Num(7)
          [] OTHER -> Bool(TRUE)]

Metadatas ==
    {MetadataWith(K, Str("2020/05")) : K \in SUBSET MetadataKeys}
    \cup {MetadataWith(MetadataKeys, Num(2020))}

PaperMetas == [paper : PaperContents, metadata : Metadatas]

\* the four fields are all in the response
Complete(r, review) == \A field \in required_fields(review) : field \in DOMAIN r

\* metadata.get('publish_year', '').split('/') raises on a number
YearRaises(metadata) ==
    Truthy(Get(metadata, "publish_year")) /\ Get(metadata, "publish_year").t # "str"

\* the result record (authors and article_url, which build_database copies or
\* ignores, are left out)
BuildResult(paper, metadata, r, review) ==
    LET base == [paper_id |-> Get(paper, "id"),
                 doi |-> Get(paper, "doi"),
                 title |-> GetOr(paper, "title", Str("Unknown")),
                 journal |-> Get(metadata, "journal"),
                 year |-> IF Truthy(Get(metadata, "publish_year"))
                          THEN Str(SplitFirst(GetOr(metadata, "publish_year", Str("")).s))
                          ELSE Str(""),
                 citation_count |-> Get(metadata, "citation_count"),
                 is_open_access |-> Get(metadata, "is_open_access")]
    IN  [k \in DOMAIN base \cup required_fields(review) |->
            IF k \in DOMAIN base THEN base[k] ELSE r[k]]

\* reasoning-chain files build_database may be given that this pipeline did not write
ForeignChains ==
    LET four == [k \in required_fields(FALSE) |-> Str("t")]
        Keys == {"paper_id", "doi", "title", "journal", "year", "citation_count",
                 "is_open_access"}
        With(v, y) == [k \in Keys \cup DOMAIN four |->
                         IF k \in DOMAIN four THEN four[k]
                         ELSE IF k = "year" THEN y ELSE v]
    IN  { four,
          With(Null, Null),
          With(Null, Num(2020)),
          [four EXCEPT !["data"] = Str("")],
          [four EXCEPT !["method"] = Null],
          [k \in DOMAIN four \ {"conclusion"} |-> four[k]] }

Variants == {"build_db", "hybrid"}

IsNone(x) == "none" \in DOMAIN x
Skipped == [skipped |-> TRUE]
IsSkipped(x) == "skipped" \in DOMAIN x
IsInserted(x) == "ids" \in DOMAIN x

\* all([problem, data, method, conclusion])
AllFourOnlyProblem(c) == Truthy(GetOr(c, "problem_decomposition", Str("")))

AllFour(c) == \A field \in required_fields(FALSE) : Truthy(GetOr(c, field, Str("")))

\* the vector embed_single gives for a text
Embed(text) == [vector_of |-> text]

index_text_with_data(c) ==
    "Research Title: " \o Format(GetOr(c, "title", Str("Unknown Title")))
        \o "\n\nProblem Decomposition:\n" \o Format(GetOr(c, "problem_decomposition", Str("")))
        \o Format(GetOr(c, "data", Str("")))

index_text(c) ==
    "Research Title: " \o Format(GetOr(c, "title", Str("Unknown Title")))
        \o "\n\nProblem Decomposition:\n" \o Format(GetOr(c, "problem_decomposition", Str("")))

reasoning_chain_dict(c) == [field \in required_fields(FALSE) |-> GetOr(c, field, Str(""))]

\* the metadata of build_db.py; the two values that are json.dumps strings are kept
\* apart, in "serialized", as the objects they are the text of
MetadataBuildDb(c) ==
    [paper_id |-> GetOr(c, "paper_id", Str("unknown")),
     title |-> GetOr(c, "title", Str("Unknown Title")),
     doi |-> OrElse(Get(c, "doi"), Str("")),
     year |-> IntOf(OrElse(Get(c, "year"), Num(0))),
     citation_count |-> IntOf(OrElse(Get(c, "citation_count"), Num(0))),
     journal |-> OrElse(Get(c, "journal"), Str("")),
     is_open_access |-> BoolOf(GetOr(c, "is_open_access", Bool(FALSE)))]

\* the metadata of build_hybrid_reasoning_db.py
MetadataHybrid(c) ==
    [paper_id |-> GetOr(c, "paper_id", Str("unknown")),
     title |-> GetOr(c, "title", Str("Unknown Title")),
     doi |-> GetOr(c, "doi", Str("")),
     year |-> GetOr(c, "year", Num(0)),
     citation_count |-> GetOr(c, "citation_count", Num(0)),
     journal |-> GetOr(c, "journal", Str("")),
     is_open_access |-> GetOr(c, "is_open_access", Bool(FALSE))]

\* what collection.add is given for the record
Inserted(c, v) ==
    [ids |-> GetOr(c, "paper_id", Str("unknown")),
     embeddings |-> Embed(index_text(c)),
     documents |-> Str(index_text(c)),
     metadatas |-> IF v = "build_db" THEN MetadataBuildDb(c) ELSE MetadataHybrid(c),
     serialized |-> reasoning_chain_dict(c)]

StoreFrame == <<pvars, gvars, nvars, hit, corpus, exists, file, pc, resume, processed_ids,
                papers_to_process, cursor, processed, failed, runs,
                sections_list, media_data, is_review, final_parts, kpc>>

InitStore ==
    /\ BatchIdle /\ ParseIdle /\ SelectIdle /\ RestIdle
    /\ variant = "build_db" /\ entry = NoRecord /\ hit = NoRecord
    /\ \/ /\ spc = "llm"
          /\ is_review \in BOOLEAN
          /\ reasoning \in Responses
          /\ paper_meta \in PaperMetas
          /\ result = NoRecord /\ chain = NoRecord
       \/ /\ spc = "appended"
          /\ is_review = FALSE
          /\ reasoning = NoRecord /\ paper_meta = NoRecord /\ result = NoRecord
          /\ chain \in ForeignChains

\* one pass of the retry loop whose response has the four fields: the record is returned
AttemptReturns ==
    /\ spc = "llm"
    /\ Complete(reasoning, is_review)
    /\ ~YearRaises(paper_meta.metadata)
    /\ result' = BuildResult(paper_meta.paper, paper_meta.metadata, reasoning, is_review)
    /\ spc' = "returned"
    /\ UNCHANGED <<StoreFrame, attempt, reasoning, paper_meta, chain, variant, entry>>

\* a pass that raises, not the last: the next pass gets a new response
AttemptRetries ==
    /\ spc = "llm"
    /\ ~Complete(reasoning, is_review) \/ YearRaises(paper_meta.metadata)
    /\ attempt # max_retries - 1
    /\ attempt' = attempt + 1
    /\ reasoning' \in Responses
    /\ UNCHANGED <<StoreFrame, spc, paper_meta, result, chain, variant, entry>>

\* the last pass raises: None is returned
AttemptGivesUp ==
    /\ spc = "llm"
    /\ ~Complete(reasoning, is_review) \/ YearRaises(paper_meta.metadata)
    /\ attempt = max_retries - 1
    /\ result' = NoRecord
    /\ spc' = "returned"
    /\ UNCHANGED <<StoreFrame, attempt, reasoning, paper_meta, chain, variant, entry>>

\* batch_process appends the record that was returned, and load_reasoning_chains
\* reads the line back: json.dumps and json.loads keep null, strings, integers and
\* booleans as they are
AppendResult ==
    /\ spc = "returned"
    /\ ~IsNone(result)
    /\ chain' = result
    /\ spc' = "appended"
    /\ UNCHANGED <<StoreFrame, attempt, reasoning, paper_meta, result, variant, entry>>

\* build_database on the record: a field of the four is missing or falsy
BuildSkipsIncomplete ==
    /\ spc = "appended"
    /\ ~AllFour(chain)
    /\ \E v \in Variants : variant' = v
    /\ entry' = Skipped
    /\ spc' = "built"
    /\ UNCHANGED <<StoreFrame, attempt, reasoning, paper_meta, result, chain>>

\* embed_single returned None
BuildSkipsEmbedding ==
    /\ spc = "appended"
    /\ AllFour(chain)
    /\ \E v \in Variants : variant' = v
    /\ entry' = Skipped
    /\ spc' = "built"
    /\ UNCHANGED <<StoreFrame, attempt, reasoning, paper_meta, result, chain>>

BuildInserts ==
    /\ spc = "appended"
    /\ AllFour(chain)
    /\ \E v \in Variants :
        /\ variant' = v
        /\ entry' = Inserted(chain, v)
    /\ spc' = "built"
    /\ UNCHANGED <<StoreFrame, attempt, reasoning, paper_meta, result, chain>>

\* the item _retrieve_similar_chains makes of an entry the query returns: its
\* reasoning chain is json.loads of the stored text, that is the dict that was stored
\* (the similarity and the authors are left out)
RetrievedItem(metadata, reasoning_chain, document) ==
    [title |-> metadata["title"],
     year |-> metadata["year"],
     citation_count |-> metadata["citation_count"],
     reasoning_chain |-> reasoning_chain,
     full_text |-> document,
     journal |-> GetOr(metadata, "journal", Str("Unknown Journal"))]

\* a query of the generator returns the entry that was inserted
QueryHit ==
    /\ spc = "built"
    /\ IsInserted(entry)
    /\ hit' = RetrievedItem(entry.metadatas, entry.serialized, entry.documents)
    /\ spc' = "retrieved"
    /\ UNCHANGED <<pvars, gvars, nvars, corpus, exists, file, pc, resume, processed_ids,
                   papers_to_process, cursor, processed, failed, runs,
                   sections_list, media_data, is_review, final_parts, kpc,
                   attempt, reasoning, paper_meta, result, chain, variant, entry>>

NextStore ==
    \/ QueryHit
    \/ AttemptReturns
    \/ AttemptRetries
    \/ AttemptGivesUp
    \/ AppendResult
    \/ BuildSkipsIncomplete
    \/ BuildSkipsEmbedding
    \/ BuildInserts

SpecStore == InitStore /\ [][NextStore]_vars

-----------------------------------------------------------------------------
(* create_collection and the loop of build_database (SpecBuild: one build  *)
(* of a list around the batch size; SpecRebuild: main run again on a short *)
(* list).  The records of the list have distinct ids: record i stands for  *)
(* its id, its vector, its index text and its metadata.                    *)

BatchSize == 50
MaxExtra == 2
MaxSkips == 1
MaxBuilds == 2
MaxShort == 2

\* the records the loop skips are capped
MaySkip == build_failed < MaxSkips

BuildOthers == <<pvars, bvars, gvars, svars, tvars, qvars, mvars, evars, wvars>>
BuildInput == <<chains_len, chain_ids, max_builds>>
Pending == <<all_ids, all_embeddings, all_documents, all_metadatas>>

\* what the collection held before the first create_collection
PriorContents == {{}, {<<0, "old">>}, {<<0, "old">>, <<1, "old">>}}

InitLoop ==
    /\ builds = 0 /\ reset = FALSE
    /\ bcur = 0 /\ embedding = "-"
    /\ all_ids = <<>> /\ all_embeddings = <<>> /\ all_documents = <<>> /\ all_metadatas = <<>>
    /\ add_calls = <<>> /\ build_failed = 0 /\ accepted = <<>>
    /\ prev_build = NoRecord
    /\ dpc = "start"
    /\ BatchIdle /\ ParseIdle /\ is_review = FALSE /\ SelectIdle /\ StoreIdle /\ GenerateIdle /\ MatchIdle /\ EmbedIdle /\ DemoIdle

InitBuild ==
    /\ chains_len \in (0..MaxExtra) \cup ((BatchSize - 1)..(BatchSize + MaxExtra))
    /\ chain_ids = <<>>
    /\ max_builds = 1
    /\ collection = {}
    /\ InitLoop

InitRebuild ==
    /\ chains_len \in 0..MaxShort
    /\ chain_ids = <<>>
    /\ max_builds = MaxBuilds
    /\ collection \in PriorContents
    /\ InitLoop

\* the paper_id key of a record: absent, or one of two identifiers
ChainIdDicts == {[k \in {} |-> Null]} \cup {[k \in {"paper_id"} |-> Str(v)] : v \in {"p1", "p2"}}

\* one build of a short list whose records carry their paper_id keys
InitBuildIds ==
    /\ chains_len \in 0..MaxShort
    /\ chain_ids \in [1..chains_len -> ChainIdDicts]
    /\ max_builds = 1
    /\ collection = {}
    /\ InitLoop

\* paper_id = chain.get('paper_id', 'unknown')
PaperId(rchain) == GetOr(rchain, "paper_id", Str("unknown"))

\* the ids argument of a call of collection.add, the records being given by place
HandedIds(call) == [k \in DOMAIN call.ids |-> PaperId(chain_ids[call.ids[k]])]

\* collection.add: an id the collection has keeps its entry
CollectionAdd(coll, ids) ==
    coll \cup {<<i, "new">> : i \in {j \in Range(ids) : \A e \in coll : e[1] # j}}

\* create_collection(reset): delete_collection, whose failure on a collection that is
\* not there is swallowed, then get_or_create_collection
AfterCreateKeeping(coll, r) == coll

AfterCreate(coll, r) == IF r THEN {} ELSE coll

CreateCollection ==
    /\ dpc \in {"start", "done"}
    /\ builds < max_builds
    /\ \E r \in BOOLEAN :
        /\ reset' = r
        /\ collection' = AfterCreate(collection, r)
    /\ prev_build' = IF dpc = "done"
                     THEN [collection |-> collection, accepted |-> accepted, reset |-> reset]
                     ELSE prev_build
    /\ dpc' = "created"
    /\ UNCHANGED <<BuildOthers, BuildInput, Pending, builds, bcur, embedding, add_calls,
                   build_failed, accepted>>

\* build_database up to its loop
StartBuild ==
    /\ dpc = "created"
    /\ builds' = builds + 1
    /\ bcur' = 0 /\ embedding' = "-"
    /\ all_ids' = <<>> /\ all_embeddings' = <<>> /\ all_documents' = <<>> /\ all_metadatas' = <<>>
    /\ add_calls' = <<>> /\ build_failed' = 0 /\ accepted' = <<>>
    /\ dpc' = "loop"
    /\ UNCHANGED <<BuildOthers, BuildInput, reset, collection, prev_build>>

\* a pass of the loop on a record that lacks one of the four fields
LoopSkipIncomplete ==
    /\ dpc = "loop" /\ bcur < chains_len
    /\ MaySkip
    /\ bcur' = bcur + 1
    /\ embedding' = "-"
    /\ build_failed' = build_failed + 1
    /\ UNCHANGED <<BuildOthers, BuildInput, Pending, builds, reset, collection, add_calls,
                   accepted, prev_build, dpc>>

LoopSkipEmbeddingUncounted ==
    /\ dpc = "loop" /\ bcur < chains_len
    /\ MaySkip
    /\ bcur' = bcur + 1
    /\ embedding' = "none"
    /\ UNCHANGED <<BuildOthers, BuildInput, Pending, builds, reset, collection, add_calls,
                   build_failed, accepted, prev_build, dpc>>

\* a pass on a complete record for which embed_single returns None
LoopSkipEmbedding ==
    /\ dpc = "loop" /\ bcur < chains_len
    /\ MaySkip
    /\ bcur' = bcur + 1
    /\ embedding' = "none"
    /\ build_failed' = build_failed + 1
    /\ UNCHANGED <<BuildOthers, BuildInput, Pending, builds, reset, collection, add_calls,
                   accepted, prev_build, dpc>>

TheCall(ids, embeddings, documents, metadatas) ==
    [ids |-> ids, embeddings |-> embeddings, documents |-> documents, metadatas |-> metadatas]

\* the threshold of the batch insert
FullLate(n) == n > BatchSize

Full(n) == n >= BatchSize

\* a pass on a record that passes both checks; with the pending lists full,
\* collection.add is called, and it returns or raises
LoopAccept ==
    /\ dpc = "loop" /\ bcur < chains_len
    /\ LET i == bcur + 1
           ids == Append(all_ids, i)
           embeddings == Append(all_embeddings, i)
           documents == Append(all_documents, i)
           metadatas == Append(all_metadatas, i)
       IN  /\ bcur' = i
           /\ embedding' = "vector"
           /\ accepted' = Append(accepted, i)
           /\ IF Full(Len(ids))
              THEN /\ add_calls' = Append(add_calls, TheCall(ids, embeddings, documents, metadatas))
                   /\ \/ /\ collection' = CollectionAdd(collection, ids)
                         /\ all_ids' = <<>> /\ all_embeddings' = <<>>
                         /\ all_documents' = <<>> /\ all_metadatas' = <<>>
                         /\ dpc' = "loop"
                      \/ /\ all_ids' = ids /\ all_embeddings' = embeddings
                         /\ all_documents' = documents /\ all_metadatas' = metadatas
                         /\ dpc' = "raised"
                         /\ UNCHANGED collection
              ELSE /\ all_ids' = ids /\ all_embeddings' = embeddings
                   /\ all_documents' = documents /\ all_metadatas' = metadatas
                   /\ UNCHANGED <<add_calls, collection, dpc>>
    /\ UNCHANGED <<BuildOthers, BuildInput, builds, reset, build_failed, prev_build>>

\* after the loop: the remainder is inserted
LoopEnd ==
    /\ dpc = "loop" /\ bcur = chains_len
    /\ IF all_ids # <<>>
       THEN /\ add_calls' = Append(add_calls,
                                   TheCall(all_ids, all_embeddings, all_documents, all_metadatas))
            /\ \/ /\ collection' = CollectionAdd(collection, all_ids)
                  /\ dpc' = "done"
               \/ /\ dpc' = "raised"
                  /\ UNCHANGED collection
       ELSE /\ dpc' = "done"
            /\ UNCHANGED <<add_calls, collection>>
    /\ UNCHANGED <<BuildOthers, BuildInput, Pending, builds, reset, bcur, embedding,
                   build_failed, accepted, prev_build>>

NextBuild ==
    \/ CreateCollection
    \/ StartBuild
    \/ LoopSkipIncomplete
    \/ LoopSkipEmbedding
    \/ LoopAccept
    \/ LoopEnd

SpecBuild == InitBuild /\ [][NextBuild]_vars

SpecRebuild == InitRebuild /\ [][NextBuild]_vars

SpecBuildIds == InitBuildIds /\ [][NextBuild]_vars

-----------------------------------------------------------------------------
(* generate_reasoning_chain of reasoning_chain_generator.py (SpecGenerate). *)
(*                                                                         *)
(* A text (an LLM answer, the message of an exception) is a sequence of    *)
(* pieces: words without braces, a "{" or a "}" on its own, or the text of *)
(* a JSON object with some of the eight fields.  An optional value is <<>> *)
(* (None) or <<v>>.                                                        *)

MaxHits == 2
MaxOut == 2
MaxAuthors == 4

None == <<>>
Some(v) == <<v>>

NoFields == [k \in {} |-> Null]
TextPiece(kind, text, fields) == [k |-> kind, text |-> text, fields |-> fields]
Words(text) == TextPiece("words", text, NoFields)

required_full == {"problem_decomposition", "data", "method", "conclusion"}
required_summary == {"problem_summary", "data_summary", "method_summary", "conclusion_summary"}

\* the text of a JSON object with the keys K; the value of a key is the key's name
ObjectWith(K) == TextPiece("object", "", [k \in K |-> Str(k)])

Pieces ==
    { Words("words"), TextPiece("open", "{", NoFields), TextPiece("close", "}", NoFields),
      ObjectWith(required_full \cup required_summary),
      ObjectWith((required_full \cup required_summary) \ {"data"}),
      ObjectWith((required_full \cup required_summary) \ {"conclusion_summary"}) }

RawTexts == SeqsUpTo(Pieces, MaxOut)

\* ---- the stored metadata of a hit ----

\* the value json.loads gives for the stored authors: [json |-> "invalid"] when it
\* raises, [json |-> "object"] for a value that is not a list, else the list, whose
\* elements are dicts with or without a name, or strings
AuthorDict(name) == [e |-> "dict", name |-> Some(name)]
AuthorNoName == [e |-> "dict", name |-> None]
AuthorStr(s) == [e |-> "str", name |-> Some(Str(s))]
AuthorName(n) == CASE n = 1 -> "A1" [] n = 2 -> "A2" [] n = 3 -> "A3" [] n = 4 -> "A4" [] OTHER -> "A5"
AuthorList(elems) == [json |-> "list", elems |-> elems]
Named(n) == AuthorList([k \in 1..n |-> AuthorDict(Str(AuthorName(k)))])

AuthorsValues ==
    { [json |-> "emptystring", elems |-> <<>>],
      [json |-> "invalid", elems |-> <<>>],
      [json |-> "object", elems |-> <<>>],
      AuthorList(<<AuthorStr("A1"), AuthorStr("A2")>>),
      AuthorList(<<AuthorNoName>>),
      AuthorList(<<AuthorDict(Str("A1")), AuthorNoName>>),
      AuthorList(<<AuthorDict(Str("A1")), AuthorStr("A2")>>),
      AuthorList(<<AuthorDict(Null)>>) }
    \cup {Named(n) : n \in 0..MaxAuthors}

\* the stored reasoning_chain text: of the four fields, of an abstract, not JSON,
\* or JSON that is not an object
ChainTexts == {"four", "abstract", "invalid", "list"}

MetaKeys == {"title", "year", "citation_count", "journal", "authors", "reasoning_chain"}

Meta(keys, authors, chain_text) == [keys |-> keys, authors |-> authors, reasoning_chain |-> chain_text]

PlainMeta == Meta(MetaKeys, Named(1), "four")

OddMetas ==
    ({Meta(MetaKeys, a, "four") : a \in AuthorsValues}
     \cup {Meta(MetaKeys \ {k}, Named(1), "four") : k \in MetaKeys}
     \cup {Meta(MetaKeys, Named(1), c) : c \in ChainTexts}) \ {PlainMeta}

\* the hit lists: at most one hit is not the plain one
HitLists ==
    {h \in SeqsUpTo({PlainMeta} \cup OddMetas, MaxHits) :
        Cardinality({i \in DOMAIN h : h[i] # PlainMeta}) <= 1}

GenerateOthers == <<pvars, bvars, gvars, svars, tvars, dvars, mvars, evars, wvars>>
GenerateInput == <<stored, return_references>>

InitGenerate ==
    /\ stored \in HitLists
    /\ return_references \in BOOLEAN
    /\ retrieved = <<>> /\ llm_calls = 0 /\ generated_chain = None
    /\ gen_result = NoRecord /\ raised_in = "-"
    /\ gpc = "start"
    /\ BatchIdle /\ ParseIdle /\ is_review = FALSE /\ SelectIdle /\ StoreIdle /\ BuildIdle /\ MatchIdle /\ EmbedIdle /\ DemoIdle

\* ---- _retrieve_similar_chains ----

\* json.loads(metadata.get('reasoning_chain', '{}'))
LoadedChain(meta) ==
    IF "reasoning_chain" \notin meta.keys THEN "empty" ELSE meta.reasoning_chain

\* building the item of a hit raises: the stored text is not JSON, or a key read
\* with [] is missing
ItemRaises(meta) ==
    \/ "reasoning_chain" \in meta.keys /\ meta.reasoning_chain = "invalid"
    \/ {"title", "year", "citation_count"} \ meta.keys # {}

\* metadata.get('authors', '[]'): the stored text, as the value json.loads gives for it
SimilarChain(meta, n) ==
    [hit |-> n,
     reasoning_chain |-> LoadedChain(meta),
     authors |-> IF "authors" \in meta.keys THEN meta.authors ELSE AuthorList(<<>>),
     journal |-> IF "journal" \in meta.keys THEN "journal" ELSE "Unknown Journal"]

SimilarChains(hits) == [n \in DOMAIN hits |-> SimilarChain(hits[n], n)]

\* embed_single returns None for the question
RetrieveNoEmbedding ==
    /\ gpc = "start"
    /\ retrieved' = <<>>
    /\ gpc' = "retrieved"
    /\ UNCHANGED <<GenerateOthers, GenerateInput, llm_calls, generated_chain, gen_result, raised_in>>

\* collection.query raises
RetrieveQueryRaises ==
    /\ gpc = "start"
    /\ raised_in' = "_retrieve_similar_chains"
    /\ gpc' = "raised"
    /\ UNCHANGED <<GenerateOthers, GenerateInput, retrieved, llm_calls, generated_chain, gen_result>>

\* the query returns the hits and the loop makes their items, or raises on one
Retrieve ==
    /\ gpc = "start"
    /\ IF \E n \in DOMAIN stored : ItemRaises(stored[n])
       THEN /\ raised_in' = "_retrieve_similar_chains"
            /\ gpc' = "raised"
            /\ UNCHANGED retrieved
       ELSE /\ retrieved' = SimilarChains(stored)
            /\ gpc' = "retrieved"
            /\ UNCHANGED raised_in
    /\ UNCHANGED <<GenerateOthers, GenerateInput, llm_calls, generated_chain, gen_result>>

\* ---- generate_reasoning_chain, up to the call of the LLM ----

Result(status, rchain, summary, raw, refs) ==
    [status |-> status, reasoning_chain |-> rchain, summary |-> summary, raw_output |-> raw,
     references |-> refs]

ReturnNothingFoundAfterCall ==
    /\ gpc = "retrieved"
    /\ retrieved = <<>>
    /\ llm_calls' = llm_calls + 1
    /\ gen_result' = Result("error", None, None, None, None)
    /\ gpc' = "returned"
    /\ UNCHANGED <<GenerateOthers, GenerateInput, retrieved, generated_chain, raised_in>>

\* if not retrieved: the error is returned (no raw_output, no references)
ReturnNothingFound ==
    /\ gpc = "retrieved"
    /\ retrieved = <<>>
    /\ gen_result' = Result("error", None, None, None, None)
    /\ gpc' = "returned"
    /\ UNCHANGED <<GenerateOthers, GenerateInput, retrieved, llm_calls, generated_chain, raised_in>>

\* _build_generation_prompt: 'abstract' in chain, chain.get(...); a chain that is a
\* list has no get
BuildPrompt ==
    /\ gpc = "retrieved"
    /\ retrieved # <<>>
    /\ IF \E n \in DOMAIN retrieved : retrieved[n].reasoning_chain = "list"
       THEN /\ raised_in' = "_build_generation_prompt"
            /\ gpc' = "raised"
       ELSE /\ gpc' = "prompted"
            /\ UNCHANGED raised_in
    /\ UNCHANGED <<GenerateOthers, GenerateInput, retrieved, llm_calls, generated_chain, gen_result>>

\* ---- _call_llm ----

\* max_retries of _call_llm
generation_max_retries == 3

\* message_content or "LLM 响应为空"
ContentOr(text) == IF text = <<>> THEN <<Words("LLM response is empty")>> ELSE text

\* f"Generation failed after {max_retries} attempts: {str(e)}"
FailureText(message) == <<Words("Generation failed after 3 attempts: ")>> \o message

\* a pass of the retry loop in which the call returns: its content, or the note that
\* there are no choices
LlmReturns ==
    /\ gpc = "prompted"
    /\ llm_calls' = llm_calls + 1
    /\ \/ \E text \in RawTexts : generated_chain' = Some(ContentOr(text))
       \/ generated_chain' = Some(<<Words("LLM response choices is empty")>>)
    /\ gpc' = "generated"
    /\ UNCHANGED <<GenerateOthers, GenerateInput, retrieved, gen_result, raised_in>>

\* a pass in which the call raises, not the last
LlmRaises ==
    /\ gpc = "prompted"
    /\ llm_calls + 1 # generation_max_retries
    /\ llm_calls' = llm_calls + 1
    /\ UNCHANGED <<GenerateOthers, GenerateInput, retrieved, generated_chain, gen_result,
                   raised_in, gpc>>

\* the last pass raises: the failure text with the message of the exception
LlmRaisesLast ==
    /\ gpc = "prompted"
    /\ llm_calls + 1 = generation_max_retries
    /\ llm_calls' = llm_calls + 1
    /\ \E message \in RawTexts : generated_chain' = Some(FailureText(message))
    /\ gpc' = "generated"
    /\ UNCHANGED <<GenerateOthers, GenerateInput, retrieved, gen_result, raised_in>>

\* ---- _parse_generated_chain ----

HasOpen(p) == p.k \in {"open", "object"}
HasClose(p) == p.k \in {"close", "object"}

\* raw_output.find('{') and raw_output.rfind('}'), as the piece they fall in (0: -1)
FindOpen(raw) ==
    IF \E n \in DOMAIN raw : HasOpen(raw[n])
    THEN CHOOSE n \in DOMAIN raw : HasOpen(raw[n]) /\ \A m \in 1..(n - 1) : ~HasOpen(raw[m])
    ELSE 0

RFindClose(raw) ==
    IF \E n \in DOMAIN raw : HasClose(raw[n])
    THEN CHOOSE n \in DOMAIN raw : HasClose(raw[n]) /\ \A m \in (n + 1)..Len(raw) : ~HasClose(raw[m])
    ELSE 0

LoadsWhole(raw) ==
    IF FindOpen(raw) = 0 \/ RFindClose(raw) = 0 THEN None
    ELSE IF Len(raw) = 1 /\ raw[1].k = "object" THEN Some(raw[1].fields)
    ELSE IF Len(raw) = 2 /\ raw[1].k = "open" /\ raw[2].k = "close" THEN Some(NoFields)
    ELSE None

\* json.loads of the text from the first "{" to the last "}": the object when the two
\* are the ends of one object; "{" followed by "}" is the empty object; anything else
\* is not JSON
LoadsSlice(raw) ==
    LET a == FindOpen(raw)
        b == RFindClose(raw)
    IN  IF a = 0 \/ b = 0 THEN None
        ELSE IF a = b THEN Some(raw[a].fields)
        ELSE IF b = a + 1 /\ raw[a].k = "open" /\ raw[b].k = "close" THEN Some(NoFields)
        ELSE None

SummaryKey(k) == IF k = "problem_decomposition" THEN "problem_summary" ELSE k \o "_summary"

ParseAnyObject(raw) ==
    IF LoadsSlice(raw) = None THEN None
    ELSE LET loaded == LoadsSlice(raw)[1] IN
         Some([reasoning_chain |-> [k \in required_full |-> GetOr(loaded, k, Str(""))],
               summary |-> [k \in required_full |-> Str("")]])

\* _parse_generated_chain: None, or the reasoning chain and the summary
ParseGeneratedChain(raw) ==
    IF LoadsSlice(raw) = None THEN None
    ELSE LET loaded == LoadsSlice(raw)[1] IN
         IF required_full \cup required_summary \subseteq DOMAIN loaded
         THEN Some([reasoning_chain |-> [k \in required_full |-> loaded[k]],
                    summary |-> [k \in required_full |-> loaded[SummaryKey(k)]]])
         ELSE None

\* ---- _format_references ----

\* the text ', '.join gives
RECURSIVE Join(_)
Join(names) ==
    IF names = <<>> THEN ""
    ELSE IF Len(names) = 1 THEN names[1]
    ELSE names[1] \o ", " \o Join(Tail(names))

\* the marker the code appends after three names
EtAl == "+"

\* the authors list after the try block: the names, the elements as they are, or []
AuthorsOf(authors) ==
    IF authors.json # "list" \/ authors.elems = <<>> THEN <<>>
    ELSE LET elems == authors.elems IN
         IF elems[1].e = "dict" /\ elems[1].name # None
         THEN IF \A n \in DOMAIN elems : elems[n].e = "dict" /\ elems[n].name # None
              THEN [n \in DOMAIN elems |-> elems[n].name[1]]
              ELSE <<>>
         ELSE [n \in DOMAIN elems |-> IF elems[n].e = "str" THEN elems[n].name[1] ELSE Null]

\* ', '.join raises on an element that is not a string
JoinRaises(item) == \E n \in DOMAIN AuthorsOf(item.authors) : AuthorsOf(item.authors)[n].t # "str"

Strings(values) == [n \in DOMAIN values |-> values[n].s]

AuthorStrOf(authors) ==
    IF authors = <<>> THEN "Unknown Authors"
    ELSE IF Len(authors) <= 3 THEN Join(Strings(authors))
    ELSE Join(Strings(SubSeq(authors, 1, 3))) \o EtAl

FormattedRef(item) ==
    [hit |-> item.hit, authors |-> AuthorStrOf(AuthorsOf(item.authors)), journal |-> item.journal]

FormatReferences(found) == [n \in DOMAIN found |-> FormattedRef(found[n])]

\* ---- generate_reasoning_chain, after the call of the LLM ----

\* the parse gives None: the error with the raw output
ReturnUnparsed ==
    /\ gpc = "generated"
    /\ ParseGeneratedChain(generated_chain[1]) = None
    /\ gen_result' = Result("error", None, None, generated_chain, None)
    /\ gpc' = "returned"
    /\ UNCHANGED <<GenerateOthers, GenerateInput, retrieved, llm_calls, generated_chain, raised_in>>

\* the parse gives a chain: success, with the references if asked for
ReturnSuccess ==
    /\ gpc = "generated"
    /\ ParseGeneratedChain(generated_chain[1]) # None
    /\ LET parsed_result == ParseGeneratedChain(generated_chain[1])[1] IN
       IF return_references /\ \E n \in DOMAIN retrieved : JoinRaises(retrieved[n])
       THEN /\ raised_in' = "_format_references"
            /\ gpc' = "raised"
            /\ UNCHANGED gen_result
       ELSE /\ gen_result' = Result("success", Some(parsed_result.reasoning_chain),
                                    Some(parsed_result.summary), generated_chain,
                                    IF return_references
                                    THEN Some(FormatReferences(retrieved)) ELSE None)
            /\ gpc' = "returned"
            /\ UNCHANGED raised_in
    /\ UNCHANGED <<GenerateOthers, GenerateInput, retrieved, llm_calls, generated_chain>>

NextGenerate ==
    \/ RetrieveNoEmbedding
    \/ RetrieveQueryRaises
    \/ Retrieve
    \/ ReturnNothingFound
    \/ BuildPrompt
    \/ LlmReturns
    \/ LlmRaises
    \/ LlmRaisesLast
    \/ ReturnUnparsed
    \/ ReturnSuccess

SpecGenerate == InitGenerate /\ [][NextGenerate]_vars

-----------------------------------------------------------------------------
(* _match_paper_data of extract_reasoning.py (SpecMatch).                  *)
(*                                                                         *)
(* metadata_dict and media_dict are [by_id, by_doi], each an optional      *)
(* index (the key may be absent from the dict); an index is a function     *)
(* from ids or dois to entries.  An entry of the metadata is a dict, {}    *)
(* when empty; an entry of the media is a list, [] when empty.             *)

EmptyDict == [k \in {} |-> Null]
EmptyList == <<>>

MetadataById == [title |-> Str("by id")]
MetadataByDoi == [title |-> Str("by doi")]
MediaById == <<[caption |-> "by id"]>>
MediaByDoi == <<[caption |-> "by doi"]>>

\* paper.get('id') and paper.get('doi')
PaperIds == {Null, Str(""), Str("p1"), Str("p2")}
PaperDois == {Null, Str(""), Str("d1"), Str("d2")}

Index(key, value) == [k \in {key} |-> value]
NoKeys == [k \in {} |-> Null]

\* the dicts with their two indexes; by_id may hold an entry under the empty id
\* (load_metadata indexes every id), by_doi holds no empty doi
Dicts(by_id_entry, by_doi_entry, empty) ==
    [by_id : {None, Some(NoKeys), Some(Index(Str("p1"), by_id_entry)),
              Some(Index(Str("p1"), empty)), Some(Index(Str(""), by_id_entry))},
     by_doi : {None, Some(NoKeys), Some(Index(Str("d1"), by_doi_entry)),
               Some(Index(Str("d1"), empty))}]

MatchOthers == <<pvars, bvars, gvars, svars, tvars, dvars, qvars, evars, wvars>>
MatchInput == <<paper_id, paper_doi, metadata_dict, media_dict>>

InitMatch ==
    /\ paper_id \in PaperIds
    /\ paper_doi \in PaperDois
    /\ metadata_dict \in Dicts(MetadataById, MetadataByDoi, EmptyDict)
    /\ media_dict \in Dicts(MediaById, MediaByDoi, EmptyList)
    /\ matched_metadata = NoRecord /\ matched_media = NoRecord
    /\ mpc = "start"
    /\ BatchIdle /\ ParseIdle /\ is_review = FALSE /\ SelectIdle /\ StoreIdle /\ BuildIdle
    /\ GenerateIdle /\ EmbedIdle /\ DemoIdle

\* index.get(key, default)
IndexGet(index, key, default) == IF key \in DOMAIN index THEN index[key] ELSE default

MatchDoiFirst(id, doi, dict, empty) ==
    LET by_doi == IF Truthy(doi) /\ dict.by_doi # None
                  THEN IndexGet(dict.by_doi[1], doi, empty) ELSE empty
    IN  IF by_doi = empty /\ Truthy(id) /\ dict.by_id # None
        THEN IndexGet(dict.by_id[1], id, empty)
        ELSE by_doi

\* the two steps for one of the dicts: by id, and by doi if that gave nothing
Match(id, doi, dict, empty) ==
    LET by_id == IF Truthy(id) /\ dict.by_id # None
                 THEN IndexGet(dict.by_id[1], id, empty) ELSE empty
    IN  IF by_id = empty /\ Truthy(doi) /\ dict.by_doi # None
        THEN IndexGet(dict.by_doi[1], doi, empty)
        ELSE by_id

MatchPaperData ==
    /\ mpc = "start"
    /\ matched_metadata' = Match(paper_id, paper_doi, metadata_dict, EmptyDict)
    /\ matched_media' = Match(paper_id, paper_doi, media_dict, EmptyList)
    /\ mpc' = "matched"
    /\ UNCHANGED <<MatchOthers, MatchInput>>

NextMatch ==
    \/ MatchPaperData

SpecMatch == InitMatch /\ [][NextMatch]_vars

-----------------------------------------------------------------------------
(* embed_batch and embed_single of embedding_utils.py, and the operations   *)
(* that retry or loop, put side by side (SpecTerminates).                  *)

MaxEmbedRetries == 3
MaxTexts == 2

EmbedOthers == <<pvars, bvars, gvars, svars, tvars, dvars, qvars, mvars, wvars>>
EmbedInput == <<self_max_retries, texts_len>>

InitEmbed ==
    /\ self_max_retries \in 0..MaxEmbedRetries
    /\ texts_len \in 0..MaxTexts
    /\ batch_embeddings = <<>> /\ retry_count = 0 /\ embed_calls = 0
    /\ epc = "batch"
    /\ BatchIdle /\ ParseIdle /\ is_review = FALSE /\ SelectIdle /\ StoreIdle /\ BuildIdle
    /\ GenerateIdle /\ MatchIdle /\ DemoIdle

\* embed_batch takes the next text and calls embed_single(text)
EmbedBatchNext ==
    /\ epc = "batch" /\ Len(batch_embeddings) < texts_len
    /\ retry_count' = 0 /\ embed_calls' = 0
    /\ epc' = "single"
    /\ UNCHANGED <<EmbedOthers, EmbedInput, batch_embeddings>>

\* embed_batch has taken every text
EmbedBatchEnd ==
    /\ epc = "batch" /\ Len(batch_embeddings) = texts_len
    /\ epc' = "done"
    /\ UNCHANGED <<EmbedOthers, EmbedInput, batch_embeddings, retry_count, embed_calls>>

\* embeddings.create returns a non-empty list: embed_single returns it
CreateReturnsVector ==
    /\ epc = "single"
    /\ embed_calls' = embed_calls + 1
    /\ batch_embeddings' = Append(batch_embeddings, "vector")
    /\ epc' = "batch"
    /\ UNCHANGED <<EmbedOthers, EmbedInput, retry_count>>

\* embeddings.create returns something else: embed_single returns None, without retry
CreateReturnsInvalid ==
    /\ epc = "single"
    /\ embed_calls' = embed_calls + 1
    /\ batch_embeddings' = Append(batch_embeddings, "none")
    /\ epc' = "batch"
    /\ UNCHANGED <<EmbedOthers, EmbedInput, retry_count>>

CreateRaisesRetryForever ==
    /\ epc = "single"
    /\ retry_count < self_max_retries
    /\ embed_calls' = embed_calls + 1
    /\ UNCHANGED <<EmbedOthers, EmbedInput, batch_embeddings, retry_count, epc>>

\* embeddings.create raises with retry_count < self.max_retries: embed_single calls
\* itself with retry_count + 1
CreateRaisesRetry ==
    /\ epc = "single"
    /\ retry_count < self_max_retries
    /\ embed_calls' = embed_calls + 1
    /\ retry_count' = retry_count + 1
    /\ UNCHANGED <<EmbedOthers, EmbedInput, batch_embeddings, epc>>

\* embeddings.create raises with no retry left: embed_single returns None
CreateRaisesGiveUp ==
    /\ epc = "single"
    /\ ~(retry_count < self_max_retries)
    /\ embed_calls' = embed_calls + 1
    /\ batch_embeddings' = Append(batch_embeddings, "none")
    /\ epc' = "batch"
    /\ UNCHANGED <<EmbedOthers, EmbedInput, retry_count>>

\* one of: embed_batch; extract_reasoning_chain and the build of its record;
\* build_database; generate_reasoning_chain
InitTerminates ==
    \/ InitEmbed
    \/ InitStore
    \/ InitBuild
    \/ InitGenerate

NextTerminates ==
    \/ EmbedBatchNext
    \/ EmbedBatchEnd
    \/ CreateReturnsVector
    \/ CreateReturnsInvalid
    \/ CreateRaisesRetry
    \/ CreateRaisesGiveUp
    \/ AttemptReturns
    \/ AttemptRetries
    \/ AttemptGivesUp
    \/ AppendResult
    \/ BuildSkipsIncomplete
    \/ BuildSkipsEmbedding
    \/ BuildInserts
    \/ QueryHit
    \/ CreateCollection
    \/ StartBuild
    \/ LoopSkipIncomplete
    \/ LoopSkipEmbedding
    \/ LoopAccept
    \/ LoopEnd
    \/ RetrieveNoEmbedding
    \/ RetrieveQueryRaises
    \/ Retrieve
    \/ ReturnNothingFound
    \/ BuildPrompt
    \/ LlmReturns
    \/ LlmRaises
    \/ LlmRaisesLast
    \/ ReturnUnparsed
    \/ ReturnSuccess

SpecTerminates == InitTerminates /\ [][NextTerminates]_vars

-----------------------------------------------------------------------------
(* The web demo: predict, regenerate and reset_state of one session, run    *)
(* one after the other.  A query is a sequence of characters, a response a  *)
(* string; a text of a pair is [text, html], html telling whether it went   *)
(* through mdtex2html.convert.  predict is a generator, and its two yields  *)
(* are two steps.  Every list yielded or returned for the chatbot component *)
(* goes through the postprocess installed on gr.Chatbot, which converts the *)
(* pairs of that list in place; the next operation is given the list as     *)
(* displayed.                                                               *)

\* pairs in the task history
MaxTurns == 2

DemoOthers == <<pvars, bvars, gvars, svars, tvars, dvars, qvars, mvars, evars>>

\* what the user may submit: blank queries and others
Queries == {<<>>, <<" ">>, <<"a">>, <<" ", "b">>}

\* _format_reasoning_chain(result) of the results the generator may return
Answers == {"chain", "failure text"}

\* str(e) of the exceptions the try block may raise
Exceptions == {"KeyError"}

Loading == "loading"

ErrorMsg(e) == "failed: " \o e

Raw(x) == [text |-> x, html |-> FALSE]

\* mdtex2html.convert: Markdown to HTML; HTML is left as it is
Convert(t) == [t EXCEPT !.html = TRUE]

\* postprocess(self, y) of gr.Chatbot
postprocess(y) == [i \in DOMAIN y |-> <<Convert(y[i][1]), Convert(y[i][2])>>]

Lists == [chatbot |-> chatbot, task_history |-> task_history]

InitDemo ==
    /\ chatbot = <<>> /\ task_history = <<>>
    /\ w_query = <<>> /\ w_op = "-" /\ w_before = <<>>
    /\ wpc = "ready"
    /\ BatchIdle /\ ParseIdle /\ is_review = FALSE /\ SelectIdle /\ StoreIdle /\ BuildIdle
    /\ GenerateIdle /\ MatchIdle /\ EmbedIdle

\* list.pop(-1) of a non-empty list
Pop(l) == SubSeq(l, 1, Len(l) - 1)

\* l[-1] = pair
SetLast(l, pair) == [l EXCEPT ![Len(l)] = pair]

\* predict up to its first yield, on lists c and h: a blank query yields and returns
PredictBegins(q, c, h) ==
    IF Strip(q) = <<>>
    THEN /\ chatbot' = postprocess(c) /\ task_history' = h
         /\ wpc' = "ready"
    ELSE /\ chatbot' = postprocess(Append(c, <<Raw(q), Raw(Loading)>>)) /\ task_history' = h
         /\ wpc' = "generating"

\* predict is called with a query
Predict ==
    /\ wpc = "ready"
    /\ Len(task_history) < MaxTurns
    /\ \E q \in Queries :
        /\ w_query' = q
        /\ PredictBegins(q, chatbot, task_history)
    /\ w_op' = "predict"
    /\ w_before' = Lists
    /\ UNCHANGED DemoOthers

\* the try block of predict ends: the response replaces the loading message and the
\* pair is appended to the task history
PredictSucceeds ==
    /\ wpc = "generating"
    /\ \E formatted_response \in Answers :
        /\ chatbot' = postprocess(SetLast(chatbot, <<Raw(w_query), Raw(formatted_response)>>))
        /\ task_history' = Append(task_history, <<Raw(w_query), Raw(formatted_response)>>)
    /\ wpc' = "ready"
    /\ UNCHANGED <<DemoOthers, w_query, w_op, w_before>>

PredictFailsShownOnly ==
    /\ wpc = "generating"
    /\ \E e \in Exceptions :
        chatbot' = postprocess(SetLast(chatbot, <<Raw(w_query), Raw(ErrorMsg(e))>>))
    /\ wpc' = "ready"
    /\ UNCHANGED <<DemoOthers, task_history, w_query, w_op, w_before>>

\* generate_reasoning_chain or the formatting raises: the except block does the same
\* with the error message
PredictFails ==
    /\ wpc = "generating"
    /\ \E e \in Exceptions :
        /\ chatbot' = postprocess(SetLast(chatbot, <<Raw(w_query), Raw(ErrorMsg(e))>>))
        /\ task_history' = Append(task_history, <<Raw(w_query), Raw(ErrorMsg(e))>>)
    /\ wpc' = "ready"
    /\ UNCHANGED <<DemoOthers, w_query, w_op, w_before>>

\* regenerate on an empty task history yields and returns
RegenerateEmpty ==
    /\ wpc = "ready"
    /\ task_history = <<>>
    /\ chatbot' = postprocess(chatbot)
    /\ w_op' = "regenerate"
    /\ w_before' = Lists
    /\ UNCHANGED <<DemoOthers, task_history, w_query, wpc>>

\* regenerate: the last pair is taken off both lists and predict is run on its query;
\* _chatbot.pop(-1) raises on an empty list
Regenerate ==
    /\ wpc = "ready"
    /\ task_history # <<>>
    /\ LET last_query == task_history[Len(task_history)][1].text IN
        /\ w_query' = last_query
        /\ IF chatbot = <<>>
           THEN /\ task_history' = Pop(task_history)
                /\ wpc' = "raised"
                /\ UNCHANGED chatbot
           ELSE PredictBegins(last_query, Pop(chatbot), Pop(task_history))
    /\ w_op' = "regenerate"
    /\ w_before' = Lists
    /\ UNCHANGED DemoOthers

\* reset_state clears both lists and returns two empty lists
ResetState ==
    /\ wpc = "ready"
    /\ chatbot' = postprocess(<<>>) /\ task_history' = <<>>
    /\ w_op' = "reset_state"
    /\ w_before' = Lists
    /\ UNCHANGED <<DemoOthers, w_query, wpc>>

NextDemo ==
    \/ Predict
    \/ PredictSucceeds
    \/ PredictFails
    \/ RegenerateEmpty
    \/ Regenerate
    \/ ResetState

SpecDemo == InitDemo /\ [][NextDemo]_vars

-----------------------------------------------------------------------------
(* The claims. *)

\* C1: from a stream of N valid objects with corrupted fragments interspersed
\* anywhere (fragments with unbalanced braces or quotes included), a parse with no
\* limit returns exactly the N objects, in stream order, each equal to its source.
C1_ParserReturnsEveryObject ==
    (ppc = "done" /\ max_papers = 0) => papers = SourceRecords(items)

\* C2: a run restarted after an interrupted one attempts extraction for exactly the
\* N - k records of the corpus that have no record in the output file.
C2_ResumeProcessesExactlyTheRest ==
    (pc \in {"done", "returned"} /\ resume /\ prevEnd = "crash") =>
        /\ Range(attempted) = Indices(corpus) \ recAtStart
        /\ Len(attempted) = Len(corpus) - Cardinality(recAtStart)

\* C3: in a resumed run no record whose id is in the checkpoint set loaded at the
\* start is passed to extract_reasoning_chain, and no record is appended for it.
C3_CheckpointedNeverReprocessed ==
    resume => \A i \in Range(attempted) \cup wroteFor : corpus[i].id \notin processed_ids

\* a resumed run that skipped a checkpointed record, extracted another and appended it
C3_Witness ==
    /\ resume /\ pc = "done"
    /\ \E i \in Indices(corpus) : corpus[i].id \in processed_ids
    /\ attempted # <<>>
    /\ wroteFor # {}

\* C4: after any runs, interruptions and resumes the output file never holds two
\* records with the same paper_id.
C4_NoDuplicateIds ==
    \A j, h \in 1..Len(file) :
        (j # h /\ LineParses(file[j]) /\ LineParses(file[h])) => file[j][1].pid # file[h][1].pid

\* C5: the append follows the successful extraction before the next record is
\* taken up; so in the run resumed after a crash a record whose append had
\* completed is not reprocessed and one whose append had not started is.
C5_CrashBoundary ==
    /\ pc = "save" => (lastExtract.result = "chain" /\ lastExtract.i = Cur)
    /\ (pc \in {"done", "returned"} /\ resume /\ prevEnd = "crash") =>
        /\ \A i \in doneAtStart : i \notin Range(attempted)
        /\ \A i \in Indices(corpus) \ startedAtStart : i \in Range(attempted)

\* C6: whatever the file held before (a last line cut short by a crashed append
\* included), the load that follows a completed _save_single_result returns a set
\* that contains the saved record's paper_id.
C6_SavedIsLoaded ==
    (lastOp = "load" /\ lastSaved # "-") => lastSaved \in processed_ids

\* C7: _load_processed_papers never stops at a malformed line: it returns exactly
\* the paper_id values of the lines that parse, and the empty set for a missing file.
C7_LoadReturnsEveryParsedId ==
    lastOp = "load" =>
        processed_ids = (IF exists THEN IdsOfLines(file, Len(file)) ELSE {})

\* the file after the step keeps every line of the file before it
Extends(f, g) ==
    /\ Len(f) <= Len(g)
    /\ \A j \in 1..Len(f) :
        /\ Len(f[j]) <= Len(g[j])
        /\ SubSeq(g[j], 1, Len(f[j])) = f[j]
        /\ j < Len(f) => g[j] = f[j]

\* C8: the checkpoint set only grows: the set load returns after a step contains
\* the set it returned before, and no step truncates, rewrites or removes a line.
C8_CheckpointGrows ==
    [][ /\ Extends(file, file')
        /\ \A m \in 0..Len(file') :
            LoadProcessedPapers(file, exists, m) \subseteq LoadProcessedPapers(file', exists', m)
      ]_vars

\* C9: extract_reasoning_chain calls the LLM at most 3 times per record, stops at
\* the first call whose response is complete, and after a third failed call
\* returns None, the record going on the failure list.
C9_RetryBudget ==
    lastExtract.result # "-" =>
        /\ lastExtract.calls <= 3
        /\ lastExtract.firstValid # 0 =>
            (lastExtract.result = "chain" /\ lastExtract.calls = lastExtract.firstValid)
        /\ lastExtract.firstValid = 0 =>
            (lastExtract.result = "none" /\ lastExtract.calls = 3
                /\ lastExtract.i \in Range(failed))

\* C10: no outcome for a record ends the run: batch_process goes on to the next
\* record, so every record of the to-process list is attempted once, in order.
C10_FailuresNeverFatal ==
    /\ pc # "fatal"
    /\ pc = "done" => attempted = papers_to_process

\* position in the stream of the last character of its k-th valid object
RECURSIVE EndOfObject(_, _)
EndOfObject(its, k) ==
    IF its = <<>> THEN 0
    ELSE IF Head(its).kind = "object"
         THEN (IF k = 1 THEN Len(Head(its).text)
               ELSE Len(Head(its).text) + EndOfObject(Tail(its), k - 1))
         ELSE Len(Head(its).text) + EndOfObject(Tail(its), k)

\* C18: with a limit k, 0 < k < N, on a stream with N valid objects the parser
\* returns exactly the first k of them and stops scanning at the brace that closes
\* the k-th: nothing after it is looked at, and a rejected candidate counts for nothing.
C18_LimitStopsAtKth ==
    (ppc = "done" /\ max_papers > 0 /\ max_papers < Len(SourceRecords(items))) =>
        /\ papers = SubSeq(SourceRecords(items), 1, max_papers)
        /\ idx = EndOfObject(items, max_papers)

\* the pieces of a stream that end before position p
RECURSIVE ItemsBefore(_, _)
ItemsBefore(its, p) ==
    IF its = <<>> \/ Len(Head(its).text) >= p THEN <<>>
    ELSE <<Head(its)>> \o ItemsBefore(Tail(its), p - Len(Head(its).text))

\* C19: when the stream ends inside an object that an opening brace began and no
\* brace closes, the parser returns without an error, and what it returns is every
\* valid object of the stream that was closed before that opening brace.
C19_TrailingObjectDiscarded ==
    (ppc = "done" /\ max_papers = 0 /\ idx > Len(content)) =>
        papers = SourceRecords(ItemsBefore(items, start))

\* the members of a set of indices, in increasing order
InOrder(S) == [n \in 1..Cardinality(S) |-> CHOOSE i \in S : Cardinality({h \in S : h < i}) = n - 1]

\* a section's full text: its paragraphs that are more than whitespace, each without
\* its leading and trailing whitespace, in order
FullText(texts) ==
    LET keep == {j \in DOMAIN texts : \E c \in DOMAIN texts[j].content :
                                          texts[j].content[c] \notin Whitespace}
        ord == InOrder(keep)
    IN  [n \in DOMAIN ord |-> Strip(texts[ord[n]].content)]

HasText(section) == FullText(section.section_text) # <<>>
Denylisted(section) == KeywordsIn(section.section_title) \cap exclude_keywords # {}
Captioned(media) == \E n \in DOMAIN media :
    media[n].caption # "" \/ media[n].legend # "" \/ media[n].name # ""
BlocksOf(parts, key) == SelectSeq(parts, LAMBDA b : b.key = key)

\* C17: in review mode no section whose title contains a denylist keyword is in the
\* excerpt; every other section that has text is there in full, in document order;
\* and the Figures and Tables block, present when a media item has a caption, comes last.
C17_ReviewKeepsTheRest ==
    (kpc = "done" /\ is_review) =>
        LET kept == InOrder({i \in DOMAIN sections_list :
                        ~Denylisted(sections_list[i]) /\ HasText(sections_list[i])})
            blocks == BlocksOf(final_parts, "section")
        IN  /\ Len(blocks) = Len(kept)
            /\ \A n \in DOMAIN kept :
                /\ Len(blocks[n].parts) = 1
                /\ blocks[n].parts[1].title = sections_list[kept[n]].section_title
                /\ blocks[n].parts[1].paras = FullText(sections_list[kept[n]].section_text)
            /\ \A n \in DOMAIN final_parts :
                final_parts[n].key = "figures" => n = Len(final_parts)
            /\ Len(BlocksOf(final_parts, "figures")) = (IF Captioned(media_data) THEN 1 ELSE 0)
            /\ Len(final_parts) = Len(blocks) + Len(BlocksOf(final_parts, "figures"))

\* a review with a denylisted section that has text, two kept sections and captions
C17_Witness ==
    /\ kpc = "done" /\ is_review
    /\ \E i \in DOMAIN sections_list : Denylisted(sections_list[i]) /\ HasText(sections_list[i])
    /\ Len(BlocksOf(final_parts, "section")) = 2
    /\ final_parts[Len(final_parts)].key = "figures"

\* the sections classified under a key that have text, by index
Classified(key) ==
    {i \in DOMAIN sections_list :
        matched_key(sections_list, i) = key /\ HasText(sections_list[i])}

\* the largest member of a non-empty set of indices
Last(S) == CHOOSE i \in S : \A h \in S : h <= i

RECURSIVE TotalLen(_)
TotalLen(paras) == IF paras = <<>> THEN 0 ELSE Len(Head(paras)) + TotalLen(Tail(paras))

\* the character quotas the claim is read with, in characters of the model's paragraphs
Quota == [introduction |-> 1, main |-> 1, methods |-> 1]

C14_ResultsDiscussionInFull ==
    (kpc = "done" /\ ~is_review) =>
        \A key \in {"results", "discussion"} : \A i \in Classified(key) :
            \E n \in DOMAIN final_parts :
                /\ final_parts[n].key = key
                /\ \E q \in DOMAIN final_parts[n].parts :
                    /\ final_parts[n].parts[q].title = sections_list[i].section_title
                    /\ final_parts[n].parts[q].paras = FullText(sections_list[i].section_text)

\* the place of a block in the fixed order of the excerpt
Rank(key) ==
    CASE key \in {"introduction", "main"} -> 1
      [] key = "methods" -> 2
      [] key = "figures" -> 3
      [] key = "results" -> 4
      [] key = "discussion" -> 5
      [] OTHER -> 0

InFixedOrder ==
    \A n, m \in DOMAIN final_parts :
        n < m => (Rank(final_parts[n].key) # 0 /\ Rank(final_parts[n].key) < Rank(final_parts[m].key))

HasBlock(keys) == \E n \in DOMAIN final_parts : final_parts[n].key \in keys

\* C15 as stated: in research mode the blocks come in the order Introduction/Main,
\* Methods, Figures/Tables, Results, Discussion, and a block is left out exactly when
\* no section is classified under it (the figures block: when no media item has a caption).
C15_OrderAndPresence ==
    (kpc = "done" /\ ~is_review) =>
        /\ InFixedOrder
        /\ \A keys \in {{"introduction", "main"}, {"methods"}, {"results"}, {"discussion"}} :
            HasBlock(keys) <=> (\E i \in DOMAIN sections_list :
                                    matched_key(sections_list, i) \in keys)
        /\ HasBlock({"figures"}) <=> (\E n \in DOMAIN media_data : media_data[n].caption # "")

\* C15 amended: the same order; a block is left out exactly when no section
\* classified under it has a paragraph that is more than whitespace (the figures
\* block: when no media item has a name, a caption or a legend).
C15_OrderAndPresenceOfText ==
    (kpc = "done" /\ ~is_review) =>
        /\ InFixedOrder
        /\ \A keys \in {{"introduction", "main"}, {"methods"}, {"results"}, {"discussion"}} :
            HasBlock(keys) <=> (\E key \in keys : Classified(key) # {})
        /\ HasBlock({"figures"}) <=> Captioned(media_data)

\* a document that begins with its discussion and gives four blocks, figures included
C15_Witness ==
    /\ kpc = "done" /\ ~is_review
    /\ Len(final_parts) = 4
    /\ matched_key(sections_list, 1) = "discussion"
    /\ final_parts[4].key = "discussion"
    /\ HasBlock({"figures"})

MethodsTitled(section) == KeywordsIn(section.section_title) \cap methods_keywords # {}

ResultsParts == IF HasBlock({"results"}) THEN BlocksOf(final_parts, "results")[1].parts ELSE <<>>

\* C16: in a document with one Main section (a title of fewer than 20 characters
\* that contains "main") and one Discussion section after it, a section between them
\* goes into the Results block in full unless its title is a Methods header, and a
\* section between them with a Methods header is classified as methods, not results.
C16_BetweenMainAndDiscussion ==
    (kpc = "done" /\ ~is_review) =>
        LET mains == {i \in DOMAIN sections_list :
                        "main" \in KeywordsIn(sections_list[i].section_title)
                            /\ TitleLen(sections_list[i].section_title) < 20}
            discussions == {i \in DOMAIN sections_list :
                        "discussion" \in KeywordsIn(sections_list[i].section_title)}
        IN  (Cardinality(mains) = 1 /\ Cardinality(discussions) = 1) =>
                \A i \in (Last(mains) + 1)..(Last(discussions) - 1) :
                    HasText(sections_list[i]) =>
                        IF MethodsTitled(sections_list[i])
                        THEN /\ HasBlock({"methods"})
                             /\ \A q \in DOMAIN ResultsParts :
                                    ResultsParts[q].title # sections_list[i].section_title
                        ELSE \E q \in DOMAIN ResultsParts :
                                /\ ResultsParts[q].title = sections_list[i].section_title
                                /\ ResultsParts[q].paras = FullText(sections_list[i].section_text)

\* C11: for a record whose excerpt is empty (the shortest there is) the pipeline
\* makes no LLM call, neither a first one nor a retry, and the record ends on the
\* failure list with nothing appended for it.
C11_NoCallOnEmptyExcerpt ==
    /\ (pc = "extract" /\ key_content(corpus[Cur]) = <<>>) => calls = 0
    /\ (lastExtract.result # "-" /\ key_content(corpus[lastExtract.i]) = <<>>) =>
        /\ lastExtract.calls = 0
        /\ lastExtract.result = "none"
        /\ lastExtract.i \in Range(failed)


\* a field of the record that is there and is neither null nor empty
NonEmpty(c, field) == field \in DOMAIN c /\ c[field] # Null /\ c[field] # Str("")

\* C12: a record appended to the extraction output has the four fields of its mode, and
\* a pass whose response lacks one of them returns no record; an entry build_database
\* inserts has the four fields of its reasoning chain, taken from the record and none of
\* them null or empty, and a record lacking any of them is skipped.
C12_NeverStoredPartial ==
    /\ (spc = "returned" /\ ~Complete(reasoning, is_review)) => IsNone(result)
    /\ (spc = "returned" /\ ~IsNone(result)) =>
            \A field \in required_fields(is_review) : field \in DOMAIN result
    /\ (spc \in {"appended", "built"} /\ ~IsNone(result)) =>
            \A field \in required_fields(is_review) :
                field \in DOMAIN chain /\ chain[field] = reasoning[field]
    /\ IsInserted(entry) =>
            \A field \in required_fields(FALSE) :
                /\ NonEmpty(entry.serialized, field)
                /\ NonEmpty(chain, field)
                /\ entry.serialized[field] = chain[field]
    /\ (spc = "built" /\ \E field \in required_fields(FALSE) : ~NonEmpty(chain, field)) =>
            IsSkipped(entry)

\* a pass lacked a field, a later pass of the same call was complete, and the record it
\* returned was appended and inserted
C12_Witness ==
    /\ spc = "built" /\ IsInserted(entry)
    /\ ~IsNone(result) /\ attempt > 0

\* the input record has no value for the key: the key is missing or holds null
Lacks(c, key) == key \notin DOMAIN c \/ c[key] = Null

\* C20: of a record build_database inserts, the id, the document and every metadata
\* value handed to the vector store are not null, and a field the input record has no
\* value for is given as 0 (year, citation_count), as the empty string (doi, journal) or
\* as false (is_open_access).
C20_NoNullToStore ==
    IsInserted(entry) =>
        /\ entry.ids # Null
        /\ entry.documents # Null
        /\ \A k \in DOMAIN entry.metadatas : entry.metadatas[k] # Null
        /\ \A k \in {"year", "citation_count"} :
                Lacks(chain, k) => entry.metadatas[k] = Num(0)
        /\ \A k \in {"doi", "journal"} :
                Lacks(chain, k) => entry.metadatas[k] = Str("")
        /\ Lacks(chain, "is_open_access") => entry.metadatas["is_open_access"] = Bool(FALSE)

\* C21: a pass of the loop in which embed_single returns None leaves the pending lists,
\* the calls of collection.add and the collection as they are, adds one to the failed
\* count and goes on to the next record.
C21_EmbeddingFailureSkips ==
    [][(dpc = "loop" /\ bcur' = bcur + 1 /\ embedding' = "none") =>
            /\ Pending' = Pending
            /\ add_calls' = add_calls /\ collection' = collection /\ accepted' = accepted
            /\ build_failed' = build_failed + 1
            /\ dpc' = "loop"]_vars

\* the embedding of a record has just failed, with records pending from before
C21_Witness ==
    /\ dpc = "loop" /\ embedding = "none"
    /\ all_ids # <<>> /\ build_failed = 1 /\ bcur < chains_len

\* the ids of the calls of collection.add, one after the other
RECURSIVE IdsOfCalls(_)
IdsOfCalls(cs) == IF cs = <<>> THEN <<>> ELSE Head(cs).ids \o IdsOfCalls(Tail(cs))

NewEntries(ids) == {<<i, "new">> : i \in Range(ids)}

Variations(c) ==
    {[c EXCEPT ![k] = v] : k \in DOMAIN c \ {"title", "problem_decomposition"},
                           v \in {Str("2020"), Num(2020)}}

\* C24: the index text of an inserted entry, and so the vector, is the same for every
\* record with the same title and problem decomposition, whatever its data, method,
\* conclusion and bibliographic fields; the stored payload has the four reasoning fields
\* of the record, and the item a query makes of the entry returns them all.
C24_IndexNarrowPayloadFull ==
    /\ IsInserted(entry) =>
        /\ \A c \in Variations(chain) :
                /\ Inserted(c, variant).documents = entry.documents
                /\ Inserted(c, variant).embeddings = entry.embeddings
        /\ entry.embeddings = Embed(entry.documents.s)
        /\ DOMAIN entry.serialized = required_fields(FALSE)
        /\ \A field \in required_fields(FALSE) : entry.serialized[field] = chain[field]
    /\ spc = "retrieved" =>
        /\ DOMAIN hit.reasoning_chain = required_fields(FALSE)
        /\ \A field \in required_fields(FALSE) : hit.reasoning_chain[field] = chain[field]
        /\ hit.full_text = entry.documents

\* a record written by the pipeline was inserted and returned by a query
C24_Witness ==
    /\ spc = "retrieved" /\ ~IsNone(result)
    /\ "doi" \in DOMAIN chain /\ chain["doi"] # Null


\* C25: when the retrieval gives no neighbour (the store has none, or the
\* question could not be embedded), the LLM is never called and the result
\* returned has status "error" and no reasoning chain.
C25_NoNeighbourNoCall ==
    (gpc # "start" /\ raised_in = "-" /\ retrieved = <<>>) =>
        /\ llm_calls = 0
        /\ gpc \in {"retrieved", "returned"}
        /\ gpc = "returned" =>
              /\ gen_result.status = "error"
              /\ gen_result.reasoning_chain = None

C25_Witness ==
    /\ gpc = "returned" /\ retrieved = <<>> /\ stored # <<>>
    /\ gen_result.status = "error" /\ llm_calls = 0

\* the text is the failure text of _call_llm
IsFailureText(raw) == raw # <<>> /\ raw[1] = Words("Generation failed after 3 attempts: ")

\* C26: when every attempt of _call_llm raises, it has made exactly three
\* attempts and returns the failure text, and whatever the message of the
\* exception, _parse_generated_chain does not take that text for a chain:
\* the result returned has status "error".
C26_FailureTextNeverAChain ==
    (generated_chain # None /\ IsFailureText(generated_chain[1])) =>
        /\ llm_calls = generation_max_retries
        /\ ParseGeneratedChain(generated_chain[1]) = None
        /\ gpc = "returned" => gen_result.status = "error"

\* the object the text holds between its first "{" and its last "}" has the eight fields
HoldsEightFields(raw) ==
    /\ LoadsSlice(raw) # None
    /\ \A k \in required_full \cup required_summary : k \in DOMAIN LoadsSlice(raw)[1]

\* C27: a result with status "success" is returned only for an output whose
\* object has the four full fields and the four summary fields, and then each
\* value of the chain and of the summary returned is the value of that field
\* in the output; for an output that is not parseable or lacks a field the
\* result returned has status "error", no reasoning chain, and the raw output.
C27_SuccessOnlyWithEightFields ==
    (generated_chain # None /\ gpc \in {"returned", "raised"}) =>
        LET raw == generated_chain[1] IN
        IF HoldsEightFields(raw)
        THEN gpc = "returned" =>
               /\ gen_result.status = "success"
               /\ gen_result.reasoning_chain =
                     Some([k \in required_full |-> LoadsSlice(raw)[1][k]])
               /\ gen_result.summary =
                     Some([k \in required_full |->
                             LoadsSlice(raw)[1][IF k = "problem_decomposition"
                                                THEN "problem_summary" ELSE k \o "_summary"]])
        ELSE /\ gpc = "returned"
             /\ gen_result.status = "error"
             /\ gen_result.reasoning_chain = None
             /\ gen_result.raw_output = generated_chain

C27_Witness ==
    /\ gpc = "returned" /\ generated_chain # None
    /\ gen_result.status = "success"
    /\ Len(generated_chain[1]) = 2 /\ generated_chain[1][1] = Words("words")
    /\ gen_result.reasoning_chain[1]["data"] = Str("data")
    /\ gen_result.summary[1]["data"] = Str("data_summary")

\* C28: whatever fails on the way (the query of the store, the stored text of
\* a hit, a missing title, year or citation count, the LLM, its output, the
\* authors of a hit), generate_reasoning_chain ends by returning a result:
\* no exception leaves it, and a call that did not succeed returns status "error".
C28_NoExceptionEscapes ==
    /\ gpc # "raised"
    /\ raised_in = "-"
    /\ gpc = "returned" => gen_result.status \in {"success", "error"}

\* an element of the authors data that gives a name: a dict with a string
\* as name, or a string
UsableAuthor(e) == e.name # None /\ e.name[1].t = "str"

UsableNames(a) ==
    IF a.json # "list" THEN <<>>
    ELSE LET usable == SelectSeq(a.elems, UsableAuthor)
         IN  [n \in DOMAIN usable |-> usable[n].name[1].s]

\* every element gives a name, all in the same form
AllUsable(a) ==
    /\ a.json = "list"
    /\ \A n \in DOMAIN a.elems : UsableAuthor(a.elems[n]) /\ a.elems[n].e = a.elems[1].e

\* the author string the claim gives for the authors data
AuthorRule(a, author_str) ==
    /\ UsableNames(a) = <<>> => author_str = "Unknown Authors"
    /\ (AllUsable(a) /\ Len(a.elems) \in 1..3) => author_str = Join(UsableNames(a))
    /\ (AllUsable(a) /\ Len(a.elems) > 3) =>
           author_str = Join(SubSeq(UsableNames(a), 1, 3)) \o EtAl

\* C29: _format_references gives one reference for each retrieved item, in
\* the order of the items, and its author string is the first three names
\* joined and the marker when there are more than three authors, all the
\* names joined when there are one to three, and 'Unknown Authors' when the
\* authors data gives no usable name.
C29_AuthorString ==
    (generated_chain # None /\ return_references /\ gpc \in {"returned", "raised"}
        /\ ParseGeneratedChain(generated_chain[1]) # None) =>
        /\ gpc = "returned"
        /\ gen_result.references # None
        /\ Len(gen_result.references[1]) = Len(retrieved)
        /\ \A n \in DOMAIN retrieved :
              /\ gen_result.references[1][n].hit = n
              /\ AuthorRule(retrieved[n].authors, gen_result.references[1][n].authors)

\* the index by id has a non-empty entry for the id of the paper
HasIdEntry(dict, empty) ==
    /\ Truthy(paper_id) /\ dict.by_id # None
    /\ paper_id \in DOMAIN dict.by_id[1]
    /\ dict.by_id[1][paper_id] # empty

\* the paper carries a doi and the index by doi has an entry for it
HasDoiEntry(dict) ==
    /\ Truthy(paper_doi) /\ dict.by_doi # None
    /\ paper_doi \in DOMAIN dict.by_doi[1]

TwoTier(dict, empty, got) ==
    IF HasIdEntry(dict, empty) THEN got = dict.by_id[1][paper_id]
    ELSE IF HasDoiEntry(dict) THEN got = dict.by_doi[1][paper_doi]
    ELSE got = empty

\* C30: the metadata returned is the non-empty entry the index by id has for
\* the id of the paper, whatever the index by doi holds; it is the entry of
\* the index by doi only when the id gave nothing and the paper carries a
\* doi; it is empty when both miss.  The media items returned follow the same
\* rule on the media indexes alone.
C30_TwoTierMatch ==
    mpc = "matched" =>
        /\ TwoTier(metadata_dict, EmptyDict, matched_metadata)
        /\ TwoTier(media_dict, EmptyList, matched_media)

C30_Witness ==
    /\ mpc = "matched"
    /\ HasIdEntry(metadata_dict, EmptyDict) /\ HasDoiEntry(metadata_dict)
    /\ matched_metadata = MetadataById
    /\ ~HasIdEntry(media_dict, EmptyList) /\ matched_media = MediaByDoi

\* the steps left at most, for each of the operations: it is a natural number
StepsLeftEmbed ==
    CASE epc = "batch" -> (texts_len - Len(batch_embeddings)) * (self_max_retries + 3) + 1
      [] epc = "single" -> (texts_len - Len(batch_embeddings) - 1) * (self_max_retries + 3) + 1
                           + (self_max_retries - retry_count) + 1
      [] OTHER -> 0

StepsLeftExtract ==
    CASE spc = "llm" -> 4 + (max_retries - attempt)
      [] spc = "returned" -> 3
      [] spc = "appended" -> 2
      [] spc = "built" -> 1
      [] OTHER -> 0

StepsLeftBuild ==
    CASE dpc \in {"start", "done"} -> (max_builds - builds) * (chains_len + 4)
      [] dpc = "created" -> (max_builds - builds) * (chains_len + 4) - 1
      [] dpc = "loop" -> (max_builds - builds) * (chains_len + 4) + (chains_len - bcur) + 1
      [] OTHER -> 0

StepsLeftGenerate ==
    CASE gpc = "start" -> generation_max_retries + 4
      [] gpc = "retrieved" -> generation_max_retries + 3
      [] gpc = "prompted" -> 2 + (generation_max_retries - llm_calls)
      [] gpc = "generated" -> 1
      [] OTHER -> 0

StepsLeft == StepsLeftEmbed + StepsLeftExtract + StepsLeftBuild + StepsLeftGenerate

C32_EscapedQuoteKeepsString ==
    [][(ppc = "scan" /\ idx <= Len(content)) =>
         LET char == content[idx] IN
         /\ escape => (~escape' /\ in_string' = in_string /\ brace_count' = brace_count)
         /\ escape' <=> (~escape /\ char = "\\")
         /\ (in_string' # in_string) <=> (~escape /\ char = "\"")
         /\ (brace_count' # brace_count) <=>
               (~escape /\ ~in_string /\ char \in {"{", "}"})
         /\ brace_count >= 0 /\ brace_count' >= 0]_vars

C32_Witness ==
    /\ ppc = "scan" /\ idx >= 4 /\ idx <= Len(content)
    /\ content[idx - 3] = "\"" /\ content[idx - 2] = "\\" /\ content[idx - 1] = "\""
    /\ in_string /\ ~escape /\ brace_count = 1

\* the steps parse_contents_file has left at most: a natural number
StepsLeftParse ==
    CASE ppc = "outer" -> 2 * (Len(content) + 2 - pos)
      [] ppc = "scan" -> 2 * (Len(content) + 1 - idx) + 1
      [] OTHER -> 0

\* C33: when a candidate closes and the outer loop goes on, pos is the
\* position after the closing brace, whether json.loads took the candidate or
\* not; a candidate starts at or after pos, so after every candidate before
\* it; every pass of the outer loop that is followed by another has raised
\* pos; and every step lowers a natural number, so the parse terminates.
C33_ScanPositionAdvances ==
    [][/\ (ppc = "scan" /\ ppc' = "outer") =>
             (pos' = idx + 1 /\ content[idx] = "}" /\ pos' > start)
       /\ (ppc = "outer" /\ ppc' = "scan") => (start' >= pos /\ start' > start)
       /\ (ppc = "outer" /\ ppc' = "outer") => pos' > pos
       /\ ppc \in {"outer", "scan"} =>
             (StepsLeftParse' < StepsLeftParse /\ StepsLeftParse' >= 0)]_vars

C33_Witness ==
    /\ ppc = "outer" /\ failed_count = 1 /\ paper_count = 1
    /\ pos = idx + 1 /\ pos <= Len(content)

\* the pieces are the text of one JSON value: an object, or "{" and "}"
SpanIsJson(span) ==
    \/ Len(span) = 1 /\ span[1].k = "object"
    \/ Len(span) = 2 /\ span[1].k = "open" /\ span[2].k = "close"

Commentary == {<<>>, <<Words("words")>>, <<Words("words"), Words("words")>>}

\* C34: _parse_generated_chain reads the span from the first "{" to the last
\* "}" of the output and nothing else: words before and after do not change
\* what it returns, which is what it returns for the span alone; and it
\* returns None for an output without "{", without "}", with the last "}"
\* before the first "{", or whose span is not JSON.
C34_ParsesFirstToLastBrace ==
    generated_chain # None =>
        LET raw == generated_chain[1]
            first == FindOpen(raw)
            last == RFindClose(raw)
        IN  /\ (first = 0 \/ last = 0 \/ last < first
                  \/ ~SpanIsJson(SubSeq(raw, first, last))) =>
                    /\ ParseGeneratedChain(raw) = None
                    /\ gpc = "returned" => gen_result.status = "error"
            /\ (first # 0 /\ last >= first) =>
                    ParseGeneratedChain(raw) = ParseGeneratedChain(SubSeq(raw, first, last))
            /\ \A before \in Commentary, after \in Commentary :
                    ParseGeneratedChain(before \o raw \o after) = ParseGeneratedChain(raw)

C34_Witness ==
    /\ gpc = "returned" /\ generated_chain # None
    /\ Len(generated_chain[1]) = 2
    /\ generated_chain[1][1].k = "object" /\ generated_chain[1][2] = Words("words")
    /\ gen_result.status = "success"

\* the ids of every call of collection.add of the build, in the order handed over
RECURSIVE IdsOfBuild(_)
IdsOfBuild(cs) ==
    IF cs = <<>> THEN <<>> ELSE HandedIds(Head(cs)) \o IdsOfBuild(Tail(cs))

\* C35: within one build, the ids handed to the vector store are pairwise distinct,
\* whatever the record list: records without a paper_id key, which receive the default
\* id, and lists in which an id occurs twice included.
C35_HandedIdsDistinct ==
    chain_ids # <<>> =>
        LET handed == IdsOfBuild(add_calls)
        IN  \A j, k \in DOMAIN handed : j # k => handed[j] # handed[k]

\* C36: every record the extraction pipeline appends to its output, in research mode and
\* in review mode, passes the completeness check of build_database, so that it is not
\* skipped as an incomplete reasoning chain.
C36_ExtractedIsAccepted ==
    (spc \in {"appended", "built"} /\ ~IsNone(result)) => AllFour(chain)

\* with max_papers = m on a corpus of more than m records, the records to process are
\* taken from the first m parsed records only: no record after the first m is attempted
\* or appended, and a run that starts when the ids of the first m are all in the
\* checkpoint set processes nothing
LimitBeforeFilter ==
    max_papers > 0 =>
        /\ Range(papers_to_process) \subseteq 1..max_papers
        /\ Range(attempted) \subseteq 1..max_papers
        /\ appendStarted \subseteq 1..max_papers
        /\ (runs > 0 /\ \A i \in 1..max_papers : corpus[i].id \in processed_ids) =>
                (papers_to_process = <<>> /\ pc = "returned")

\* C37: with max_papers = m on a corpus of more than m records, every run of
\* batch_process considers only the first m parsed records, over any sequence of
\* resumed runs no record after the first m is processed, and once the appends of the
\* first m records have completed every further run processes nothing.
C37_LimitedRunsSettle ==
    /\ LimitBeforeFilter
    /\ (max_papers > 0 /\ runs > 0 /\ (1..max_papers) \subseteq doneAtStart) =>
            papers_to_process = <<>>

\* the accounts of a run: every record of the to-process list was appended in this run
\* or is on the failure list, never both, and the counts of the log agree with that
Accounted ==
    /\ \A i \in Range(papers_to_process) : (i \in wroteFor) # (i \in Range(failed))
    /\ Cardinality(Range(failed)) = Len(failed)
    /\ processed + Len(failed) = Len(papers_to_process)
    /\ Cardinality(wroteFor) = processed
    /\ LogData.this_batch_processed + LogData.this_batch_failed = Len(papers_to_process)
    /\ LogData.cumulative_processed = LogData.previously_processed + processed

\* a run that gets to its summary has counted every record once
SummaryAccounted == pc = "done" => Accounted

\* C38: at the end of every run of batch_process that reached the processing loop, each
\* record of the to-process list is counted exactly once, as processed (its record was
\* appended) or as failed: processed + number of failed = number of records to process,
\* the lines appended in the run are as many as processed, and cumulative_processed =
\* previously_processed + processed.
C38_EveryRecordCounted ==
    (pc \in {"done", "fatal"}) => Accounted

\* C39: in research mode, when several sections with text are classified under the same
\* key other than results (two methods sections, two introductions, two discussions),
\* the block of that key holds the text of every one of them: no matched section is
\* dropped.
C39_NoMatchedSectionDropped ==
    (kpc = "done" /\ ~is_review) =>
        \A key \in {"introduction", "methods", "discussion"} :
            Cardinality(Classified(key)) > 1 =>
                \A i \in Classified(key) :
                    \E n \in DOMAIN final_parts :
                        /\ final_parts[n].key = key
                        /\ \E q \in DOMAIN final_parts[n].parts :
                            final_parts[n].parts[q].paras
                                = FullText(sections_list[i].section_text)

\* the queries of a list of pairs, in order
Asked(l) == [k \in DOMAIN l |-> l[k][1].text]

\* the responses a completed predict may leave
Responses40 == Answers \cup {ErrorMsg(e) : e \in Exceptions}

\* what the completed operation did to the task history and to the length of the
\* display
Effects ==
    /\ (w_op = "predict" /\ Strip(w_query) = <<>>) =>
            /\ task_history = w_before.task_history
            /\ Len(chatbot) = Len(w_before.chatbot)
    /\ (w_op = "predict" /\ Strip(w_query) # <<>>) =>
            \E response \in Responses40 :
                /\ task_history = Append(w_before.task_history, <<Raw(w_query), Raw(response)>>)
                /\ Len(chatbot) = Len(w_before.chatbot) + 1
    /\ (w_op = "regenerate" /\ w_before.task_history # <<>>) =>
            /\ Len(task_history) = Len(w_before.task_history)
            /\ Len(chatbot) = Len(w_before.chatbot)
            /\ Asked(task_history) = Asked(w_before.task_history)
            /\ Pop(task_history) = Pop(w_before.task_history)
    /\ (w_op = "regenerate" /\ w_before.task_history = <<>>) =>
            /\ task_history = <<>> /\ chatbot = <<>>
    /\ w_op = "reset_state" => (chatbot = <<>> /\ task_history = <<>>)

====
